---------------------------- MODULE Spec2Model ----------------------------
(***************************************************************************)
(* A model of the realtime engine of clicks-core: the AudioProcessor       *)
(* callback (src/audio/processor.rs), the Metronome                        *)
(* (src/audio/metronome.rs), the per-channel PlaybackDevice and its clip   *)
(* store (src/audio/playback.rs), the channel gains (src/audio/source.rs), *)
(* the command / notification channels (src/cbnet.rs) and the part of the  *)
(* control loop that feeds them (src/main.rs).                             *)
(*                                                                         *)
(* The realtime callback is split at the points where another thread can   *)
(* interleave: BeginCycle (the driver calls process), DrainOne (one        *)
(* try_recv + handle_command) and Produce (the rest of the cycle once the  *)
(* queue is found empty).  The control thread acts in Client and           *)
(* MainFollowUp.                                                           *)
(*                                                                         *)
(* The processor hands its sources the loaded cue, the transport and the   *)
(* beat state in the context of update_context; the metronome and the      *)
(* playback device are modelled reading the cue and the transport there.   *)
(* The metronome's us_to_next_beat is what compile_child_statuses adopts   *)
(* into the transport.  Types of the common crate (Cue, ControlAction, the *)
(* VLT actions) are modelled from their use in these files.                *)
(***************************************************************************)
EXTENDS Integers, Sequences, FiniteSets, TLC

\* ------------------------------------------------------------------ bounds

MaxSamples == 4000      \* samples per behaviour of SpecAdvance
MaxCycles == 5          \* realtime cycles per behaviour of Spec
MaxCmds == 2            \* client commands per behaviour of Spec
S1Horizon == 2200000    \* jack_time (us) up to which SpecS1 runs
JumpCycles == 6         \* realtime cycles per behaviour of SpecJump
PlayCycles == 10        \* realtime cycles per behaviour of SpecPlay
GainCmds == 3           \* client commands per behaviour of SpecGain
ArgCmds == 2            \* client commands per behaviour of SpecArgs

\* --------------------------------------------------------- program constants

SampleRate == 48000     \* the rate the playback device assumes (48 / 1000)
U8 == 256               \* `as u8` wraps modulo 2^8
BeatSentinel == 32767   \* u16::MAX / 2

\* ------------------------------------------------------------- vocabulary

NoneAction == "None"
VltActions == {"None", "Toggle", "SetOn", "SetOff"}
Requirements == {"None", "JumpModeOn", "JumpModeOff"}

\* common::...::vlt : the VLT action applied to the flag.
vlt(action, v) ==
    CASE action = "Toggle" -> ~v
      [] action = "SetOn" -> TRUE
      [] action = "SetOff" -> FALSE
      [] OTHER -> v

\* No timecode: the time field of the events that set none.
NoTime == [h |-> 0, m |-> 0, s |-> 0, f |-> 0, frame_progress |-> 0, frame_rate |-> 0]

\* Events of a cue.  One record shape for all kinds; unused fields are 0 / "None".
JumpEvent(loc, dest, req, jumped, passed) ==
    [location |-> loc, kind |-> "Jump", channel |-> 0, clip_idx |-> 0, sample |-> 0,
     destination |-> dest, requirement |-> req, when_jumped |-> jumped,
     when_passed |-> passed, time |-> NoTime]

PlaybackEvent(loc, ch, clip, off) ==
    [location |-> loc, kind |-> "PlaybackStart", channel |-> ch, clip_idx |-> clip,
     sample |-> off, destination |-> 0, requirement |-> "None",
     when_jumped |-> "None", when_passed |-> "None", time |-> NoTime]

PlaybackStopEvent(loc, ch) ==
    [location |-> loc, kind |-> "PlaybackStop", channel |-> ch, clip_idx |-> 0,
     sample |-> 0, destination |-> 0, requirement |-> "None",
     when_jumped |-> "None", when_passed |-> "None", time |-> NoTime]

\* TimecodeEvent: the timecode source is set to `time` at the beat.
TimecodeEvent(loc, time) ==
    [location |-> loc, kind |-> "Timecode", channel |-> 0, clip_idx |-> 0, sample |-> 0,
     destination |-> 0, requirement |-> "None", when_jumped |-> "None",
     when_passed |-> "None", time |-> time]

\* A cue: the beat lengths in microseconds (beat i is beats[i + 1]) and the event
\* table ordered by location.
MkCue(beats, events) == [beats |-> beats, events |-> events]

EmptyCue == MkCue(<<>>, <<>>)

\* Cue::get_beat(i).is_some()
HasBeat(cue, i) == i >= 0 /\ i < Len(cue.beats)

\* Cue::get_beat(i).unwrap_or_default().length
BeatLength(cue, i) == IF HasBeat(cue, i) THEN cue.beats[i + 1] ELSE 0

\* The events located at beat i, in table order (beat.events / EventCursor).
EventsAt(cue, i) == SelectSeq(cue.events, LAMBDA e : e.location = i)

\* Commands (ControlAction), one record shape: op, a, b.
Cmd(op, a, b) == [op |-> op, a |-> a, b |-> b]

NoCmd == Cmd("-", 0, 0)


\* Rust's integer division truncates toward zero.
IDiv(a, b) == IF a >= 0 THEN a \div b ELSE -((-a) \div b)

\* ------------------------------------------------------------------ state

VARIABLES
    show,           \* status.show: the cues of the show (fixed once constructed)
    ap,             \* AudioProcessor: status.transport, status.cue, the compiled
                    \* beat state and status_changed_flag
    met,            \* Metronome: state (BeatState), last_beat_time, us_to_next_beat
    tc,             \* TimecodeSource: its flags, state (running, ltc) and
                    \* last_cycle_frame
    pb,             \* PlaybackDevice of channel PbChannel
    gain,           \* SourceConfig.gain / gain_mult of every source
    ctx,            \* AudioSourceContext as last written by update_context
    clips,          \* the clip slots of channel PbChannel (clip_idx, buffer length)
    cmd_q,          \* cbnet command channel
    emitted,        \* the messages the last realtime step sent on the notification channel
    pc,             \* where the realtime callback is: "idle" or "drain"
    jack_time,      \* the driver's clock at the start of the current cycle
    frame_size,     \* the driver's buffer size
    cycles,         \* number of cycles begun
    panicked,       \* the realtime callback aborted
    main,           \* control loop: its own cue_idx, commands still to come
    fired,          \* the events the last realtime step handed to the sources:
                    \* [event, pre], pre for event_will_occur
    net,            \* BinaryNetHandler: subscribers and input_queue, with the
                    \* datagrams waiting on its socket, the wall clock and what
                    \* its last call returned and sent
    probe,          \* the arguments and the result of the function last applied
                    \* (the specifications of single functions)
    hist            \* history: the command the last step handled, the one the
                    \* step before it handled in the same drain, vlt and the
                    \* metronome's beat_idx before it, and the cue index at which
                    \* the cue last ran out (-1: never); the samples the Advance
                    \* steps have advanced the timecode source by; the commands
                    \* put on the command channel and not handled yet, with who
                    \* put them there and in which cycle, and whether every
                    \* command handled so far was the oldest of them; whether
                    \* a seek or a jump has been handled since a cycle last
                    \* closed with TransportData, and the beat of the last
                    \* seek or jump handled (-1: none)

vars == <<show, ap, met, tc, pb, gain, ctx, clips, cmd_q, emitted, pc, jack_time,
          frame_size, cycles, panicked, main, fired, net, probe, hist>>

\* Sources: 0 the metronome, 1 the timecode source, 2 the playback device.
NumSources == 3
PbChannel == 0
Sources == 0 .. (NumSources - 1)

\* ------------------------------------------------------------ source.rs

\* 10^(g/20) in units of 1/10000, for the gains the model uses.
Pow10Div20(g) ==
    CASE g = -20 -> 1000
      [] g = -6 -> 5012
      [] g = 0 -> 10000
      [] g = 6 -> 19953
      [] OTHER -> 100000

\* SourceConfig::set_gain
set_gain(src, g) == [gain |-> g, gain_mult |-> Pow10Div20(g)]

\* SourceConfig::new: gain_mult 1.0, gain 0.0
NewSource == [gain |-> 0, gain_mult |-> 10000]

\* AudioSourceContext::samples_to_next_beat
samples_to_next_beat(us, rate) == ((us \div 10) * (rate \div 100)) \div 1000

\* AudioSourceContext::will_overrun_frame
will_overrun_frame(c) == samples_to_next_beat(c.us_to_next_beat, SampleRate) < c.frame_size

\* ---------------------------------------------------------- metronome.rs

NewBeatState == [beat_idx |-> 0, next_beat_idx |-> 0, requested_vlt_action |-> "None"]

NewMetronome ==
    [beat_idx |-> 0, next_beat_idx |-> 0, requested_vlt_action |-> "None",
     last_beat_time |-> 0, us_to_next_beat |-> 0]

BeatStateOf(m) ==
    [beat_idx |-> m.beat_idx, next_beat_idx |-> m.next_beat_idx,
     requested_vlt_action |-> m.requested_vlt_action]

requirement_fullfilled(req, v) ==
    CASE req = "JumpModeOn" -> v
      [] req = "JumpModeOff" -> ~v
      [] OTHER -> TRUE

\* Metronome::handle_event with the two VLT actions of a jump exchanged.
handle_event_exchanged(m, event, c) ==
    IF event.kind = "Jump"
    THEN IF requirement_fullfilled(event.requirement, c.vlt)
         THEN [m EXCEPT !.next_beat_idx = event.destination,
                        !.requested_vlt_action = event.when_passed]
         ELSE [m EXCEPT !.requested_vlt_action = event.when_jumped]
    ELSE m

\* Metronome::handle_event
handle_event(m, event, c) ==
    IF event.kind = "Jump"
    THEN IF requirement_fullfilled(event.requirement, c.vlt)
         THEN [m EXCEPT !.next_beat_idx = event.destination,
                        !.requested_vlt_action = event.when_jumped]
         ELSE [m EXCEPT !.requested_vlt_action = event.when_passed]
    ELSE m

RECURSIVE handle_events(_, _, _)
handle_events(m, events, c) ==
    IF events = <<>> THEN m
    ELSE handle_events(handle_event(m, Head(events), c), Tail(events), c)

\* Metronome::get_status: refreshes us_to_next_beat and reports the beat state.
MetGetStatus(m, c) ==
    LET known == HasBeat(c.cue, m.beat_idx)
        scheduled_time == m.last_beat_time + BeatLength(c.cue, m.beat_idx)
    IN  [m EXCEPT !.us_to_next_beat =
            IF known /\ scheduled_time > c.jack_time
            THEN scheduled_time - c.jack_time ELSE 0]

\* Metronome::send_buffer
MetSendBuffer(m, c) ==
    IF ~c.running THEN m
    ELSE IF ~HasBeat(c.cue, m.next_beat_idx) THEN m
    ELSE LET scheduled_time == m.last_beat_time + BeatLength(c.cue, m.beat_idx)
         IN  IF c.jack_time > scheduled_time
             THEN LET adv == [m EXCEPT
                                !.beat_idx = m.next_beat_idx,
                                !.next_beat_idx = m.next_beat_idx + 1,
                                !.last_beat_time =
                                    IF m.last_beat_time = 0 THEN c.jack_time
                                    ELSE scheduled_time]
                  IN  handle_events(adv, EventsAt(c.cue, adv.beat_idx), c)
             ELSE m

\* Metronome::command as the superseded src/metronome.rs has it: TransportZero
\* parks beat_idx on the largest index.
MetCommandParked(m, cmd) ==
    CASE cmd.op = "TransportZero" ->
            [m EXCEPT !.beat_idx = 2 * BeatSentinel + 1, !.next_beat_idx = 0,
                      !.last_beat_time = 0]
      [] cmd.op = "TransportStop" -> [m EXCEPT !.last_beat_time = 0]
      [] cmd.op = "TransportSeekBeat" -> [m EXCEPT !.next_beat_idx = cmd.a]
      [] cmd.op = "TransportJumpBeat" ->
            [m EXCEPT !.next_beat_idx = cmd.a, !.last_beat_time = 0]
      [] OTHER -> m

\* Metronome::command with a TransportZero that leaves beat_idx where it is.
MetCommand_zero_next(m, cmd) ==
    CASE cmd.op = "TransportZero" ->
            [m EXCEPT !.next_beat_idx = 0, !.last_beat_time = 0]
      [] cmd.op = "TransportStop" -> [m EXCEPT !.last_beat_time = 0]
      [] cmd.op = "TransportSeekBeat" -> [m EXCEPT !.next_beat_idx = cmd.a]
      [] cmd.op = "TransportJumpBeat" ->
            [m EXCEPT !.next_beat_idx = cmd.a, !.last_beat_time = 0]
      [] OTHER -> m

\* Metronome::command
MetCommand(m, cmd) ==
    CASE cmd.op = "TransportZero" ->
            [m EXCEPT !.beat_idx = 0, !.next_beat_idx = 0, !.last_beat_time = 0]
      [] cmd.op = "TransportStop" -> [m EXCEPT !.last_beat_time = 0]
      [] cmd.op = "TransportSeekBeat" -> [m EXCEPT !.next_beat_idx = cmd.a]
      [] cmd.op = "TransportJumpBeat" ->
            [m EXCEPT !.next_beat_idx = cmd.a, !.last_beat_time = 0]
      [] OTHER -> m

\* ----------------------------------------------------------- playback.rs

\* The loader's decoded buffers: the number of samples of each clip file.
ClipSamples(clip_idx) == IF clip_idx = 0 THEN 200 ELSE 100

\* AudioClip::new: clip_idx 0, an empty buffer.
NewClip == [clip_idx |-> 0, len |-> 0]

NoRead == [slot |-> -1, start |-> 0, len |-> 0]

NewPlaybackDevice ==
    [current_sample |-> 0, current_clip |-> 0, active |-> FALSE, read |-> NoRead]

\* The channels the PlaybackHandler is constructed with.
NumChannels == 30

\* PlaybackHandler::num_channel_clips_in_cue, lines 81-96: the PlaybackStart
\* events of the channel among the events of the beats from beat i on.
RECURSIVE ClipsFromBeat(_, _, _)
ClipsFromBeat(cue, channel, i) ==
    IF ~HasBeat(cue, i) THEN 0
    ELSE Len(SelectSeq(EventsAt(cue, i),
                       LAMBDA e : e.kind = "PlaybackStart" /\ e.channel = channel))
         + ClipsFromBeat(cue, channel, i + 1)

\* The count with the channel of the event left untested.
num_channel_clips_in_cue_any(num_channels, cue, channel) ==
    IF channel > num_channels THEN 0
    ELSE Len(SelectSeq(cue.events, LAMBDA e : e.kind = "PlaybackStart"))

\* PlaybackHandler::num_channel_clips_in_cue of a handler of num_channels channels
num_channel_clips_in_cue(num_channels, cue, channel) ==
    IF channel > num_channels THEN 0 ELSE ClipsFromBeat(cue, channel, 0)

RECURSIVE SeqMax(_)
SeqMax(s) ==
    IF s = <<>> THEN 0
    ELSE LET r == SeqMax(Tail(s)) IN IF Head(s) > r THEN Head(s) ELSE r

\* PlaybackHandler::load_show + create_audio_sources: the slots of the channel.
NewClips(sh) ==
    LET n == SeqMax([i \in 1 .. Len(sh) |-> num_channel_clips_in_cue(NumChannels, sh[i], PbChannel)])
    IN  [i \in 1 .. n |-> NewClip]

\* PlaybackHandler::clip_idxs_in_cue for the channel, sorted as load_cue sorts it.
RECURSIVE SortedSeq(_)
SortedSeq(S) ==
    IF S = {} THEN <<>>
    ELSE LET x == CHOOSE y \in S : \A z \in S : y <= z
         IN  <<x>> \o SortedSeq(S \ {x})

clip_idxs_in_cue(cue) ==
    SortedSeq({cue.events[i].clip_idx : i \in
        {j \in 1 .. Len(cue.events) :
            cue.events[j].kind = "PlaybackStart" /\ cue.events[j].channel = PbChannel}})

\* PlaybackHandler::load_cue: AudioClip::write of clip i of the cue into slot i.
LoaderLoadCue(slots, cue) ==
    LET idxs == clip_idxs_in_cue(cue)
    IN  [i \in 1 .. Len(slots) |->
            IF i <= Len(idxs)
            THEN [clip_idx |-> idxs[i], len |-> ClipSamples(idxs[i])]
            ELSE slots[i]]

\* The slot scan of an arming PlaybackStart (send_buffer, lines 353-361).
RECURSIVE ArmScan(_, _, _, _)
ArmScan(p, slots, i, clip_idx) ==
    IF i > Len(slots) THEN p
    ELSE ArmScan(IF slots[i].clip_idx = clip_idx
                 THEN [p EXCEPT !.current_clip = i - 1]
                 ELSE [p EXCEPT !.active = FALSE],
                 slots, i + 1, clip_idx)

\* One event of the next beat as send_buffer treats it.
PbEvent(p, event, c, slots) ==
    IF event.channel # PbChannel THEN p
    ELSE IF event.kind = "PlaybackStart"
    THEN IF samples_to_next_beat(c.us_to_next_beat, SampleRate) < c.frame_size
         THEN ArmScan([p EXCEPT !.active = TRUE, !.current_sample = event.sample],
                      slots, 1, event.clip_idx)
         ELSE p
    ELSE IF event.kind = "PlaybackStop" THEN [p EXCEPT !.active = FALSE]
    ELSE p

RECURSIVE PbEvents(_, _, _, _)
PbEvents(p, events, c, slots) ==
    IF events = <<>> THEN p
    ELSE PbEvents(PbEvent(p, Head(events), c, slots), Tail(events), c, slots)

\* The tail of send_buffer testing the start of the slice only against the
\* clip's length.
PbEmitStartOnly(p, n, slots) ==
    IF ~p.active THEN [p EXCEPT !.read = NoRead]
    ELSE IF p.current_sample < 0 THEN [p EXCEPT !.read = NoRead]
    ELSE IF p.current_clip >= Len(slots) THEN [p EXCEPT !.read = NoRead]
    ELSE IF p.current_sample > slots[p.current_clip + 1].len
    THEN [p EXCEPT !.active = FALSE, !.read = NoRead]
    ELSE [p EXCEPT !.read = [slot |-> p.current_clip, start |-> p.current_sample,
                             len |-> n],
                   !.current_sample = p.current_sample + n]

\* The tail of send_buffer (lines 374-388): what the armed device emits.
\* read is the slice of the clip buffer copied out this cycle (NoRead: silence).
PbEmit(p, n, slots) ==
    IF ~p.active THEN [p EXCEPT !.read = NoRead]
    ELSE IF p.current_sample < 0 THEN [p EXCEPT !.read = NoRead]
    ELSE IF p.current_clip >= Len(slots) THEN [p EXCEPT !.read = NoRead]
    ELSE IF p.current_sample + n > slots[p.current_clip + 1].len
    THEN [p EXCEPT !.active = FALSE, !.read = NoRead]
    ELSE [p EXCEPT !.read = [slot |-> p.current_clip, start |-> p.current_sample,
                             len |-> n],
                   !.current_sample = p.current_sample + n]

\* self.clips[self.current_clip] with no such slot: the callback aborts.
PbEmitFaults(p, slots) ==
    p.active /\ p.current_sample >= 0 /\ p.current_clip >= Len(slots)

\* PlaybackDevice::send_buffer
PbSendBuffer(p, c, slots) ==
    IF c.running
    THEN PbEmit(PbEvents(p, EventsAt(c.cue, c.beat.next_beat_idx), c, slots),
                c.frame_size, slots)
    ELSE [p EXCEPT !.read = NoRead]

PbSendBufferFaults(p, c, slots) ==
    /\ c.running
    /\ PbEmitFaults(PbEvents(p, EventsAt(c.cue, c.beat.next_beat_idx), c, slots), slots)

\* `time_off_us as i32 * 48` in 32-bit two's complement, for 0 <= t < 2^31:
\* the product of the 16-bit halves of t, so that no intermediate value
\* leaves the 32-bit range.
I32Max == 2147483647

Mul48(t) ==
    LET h  == ((t \div 65536) * 48) % 65536
        hs == (IF h >= 32768 THEN h - 65536 ELSE h) * 65536
        lo == (t % 65536) * 48
    IN  IF hs > I32Max - lo THEN (hs - I32Max) + (lo - I32Max) - 2 ELSE hs + lo

\* The multiplication leaves the range of i32: a panic in a build with
\* overflow checks, the wrapped product otherwise.
Mul48Overflows(t) == t > I32Max \div 48

\* PlaybackDevice::calculate_time_at_beat: the walk over beats 0 .. beat_idx - 1.
\* acc.fault records get_beat(i).unwrap() on a beat the cue does not have.
RECURSIVE CalcWalkEvents(_, _)
CalcWalkEvents(acc, events) ==
    IF events = <<>> THEN acc
    ELSE LET e == Head(events)
             a == IF e.channel # PbChannel THEN acc
                  ELSE IF e.kind = "PlaybackStart"
                  THEN [acc EXCEPT !.sample = e.sample, !.clip = e.clip_idx,
                                   !.active = TRUE, !.time = 0]
                  ELSE IF e.kind = "PlaybackStop" THEN [acc EXCEPT !.active = FALSE]
                  ELSE acc
         IN  CalcWalkEvents(a, Tail(events))

RECURSIVE CalcWalk(_, _, _, _)
CalcWalk(cue, i, n, acc) ==
    IF i >= n \/ acc.fault THEN acc
    ELSE LET a == CalcWalkEvents(acc, EventsAt(cue, i))
         IN  IF HasBeat(cue, i)
             THEN CalcWalk(cue, i + 1, n, [a EXCEPT !.time = a.time + BeatLength(cue, i)])
             ELSE [a EXCEPT !.fault = TRUE]

calculate_time_at_beat(cue, beat_idx) ==
    LET w == CalcWalk(cue, 0, beat_idx,
                      [clip |-> 0, active |-> FALSE, sample |-> 0, time |-> 0,
                       fault |-> FALSE])
    IN  [w EXCEPT !.sample = w.sample + IDiv(Mul48(w.time), 1000)]

\* PlaybackDevice::command.  The device's own `status` is never written, so the
\* seek correction subtracts its default us_to_next_beat, 0.
PbCommand(p, cmd, c) ==
    CASE cmd.op \in {"TransportStop", "TransportZero"} -> [p EXCEPT !.active = FALSE]
      [] cmd.op \in {"TransportJumpBeat", "TransportSeekBeat"} ->
            LET w == calculate_time_at_beat(c.cue, cmd.a)
            IN  [p EXCEPT !.current_clip = w.clip, !.active = w.active,
                          !.current_sample = w.sample]
      [] OTHER -> p

\* get_beat(i).unwrap() in calculate_time_at_beat on a missing beat: the callback aborts.
PbCommandFaults(cmd, c) ==
    /\ cmd.op \in {"TransportJumpBeat", "TransportSeekBeat"}
    /\ calculate_time_at_beat(c.cue, cmd.a).fault

\* ----------------------------------------------------------- timecode.rs

\* TimecodeInstant (h, m, s, f, frame_progress, frame_rate); frame_progress is
\* a 16-bit fraction of a frame.
ProgressPerFrame == 65536

TimecodeInstant(h, m, s, f, p, rate) ==
    [h |-> h, m |-> m, s |-> s, f |-> f, frame_progress |-> p, frame_rate |-> rate]

\* TimecodeInstant, PartialEq: two instants in the same frame
SameFrame(a, b) ==
    a.h = b.h /\ a.m = b.m /\ a.s = b.s /\ a.f = b.f /\ a.frame_rate = b.frame_rate

\* TimecodeInstant::new
NewInstant(rate) == TimecodeInstant(0, 0, 0, 0, 0, rate)

\* The instant k whole frames later, carried into s, m and h.
AddFrames(t, k) ==
    LET f == t.f + k
        s == t.s + (f \div t.frame_rate)
        m == t.m + (s \div 60)
        h == t.h + (m \div 60)
    IN  [t EXCEPT !.f = f % t.frame_rate, !.s = s % 60, !.m = m % 60, !.h = h % 24]

\* TimecodeInstant::add_progress: a full frame_progress carries into f.
add_progress(t, p) ==
    LET total == t.frame_progress + p
    IN  AddFrames([t EXCEPT !.frame_progress = total % ProgressPerFrame],
                  total \div ProgressPerFrame)

\* TimecodeInstant::add_us
add_us(t, us) ==
    LET frames == (us * t.frame_rate) \div 1000000
        rest == (us * t.frame_rate) % 1000000
    IN  add_progress(AddFrames(t, frames), (rest * 1024) \div 15625)

\* The greatest common divisor, to keep products within the checker's integers.
RECURSIVE GCD(_, _)
GCD(a, b) == IF b = 0 THEN a ELSE GCD(b, a % b)

\* a * b / c in integers wide enough not to overflow (usize).
MulDiv(a, b, c) == (a * (b \div GCD(b, c))) \div (c \div GCD(b, c))

\* TimecodeSource::new.  Of frame_buffer the state keeps the words rendered
\* into its two halves, frame_bits and next_frame_bits (none yet: the buffer is
\* zeroed); the samples are computed from them.
NewTimecodeSource(rate) ==
    [frame_rate |-> rate, drop_frame |-> FALSE, color_framing |-> FALSE,
     external_clock |-> FALSE, running |-> FALSE, ltc |-> NewInstant(rate),
     last_cycle_frame |-> NewInstant(25), frame_bits |-> {}, next_frame_bits |-> {}]

\* The set bits of the value v placed at bit `shift` of the word.
BitsOf(v, shift) == {shift + i : i \in {j \in 0 .. 7 : (v \div (2 ^ j)) % 2 = 1}}

\* The sync word 0b1011111111111100 at bits 64 .. 79.
SyncBits == {64 + i : i \in (2 .. 13) \cup {15}}

\* TimecodeSource::even_parity_bit: the exclusive or of all bits of the word.
even_parity_bit(bits) == Cardinality(bits) % 2

\* TimecodeSource::generate_smpte_frame_bits, lines 88-111: the time values,
\* the flags and the sync word (the user bits are forced to 0).  The 80-bit
\* word is the set of the positions of its set bits.
t_enc(t) ==
    BitsOf(((t.ltc.f % 10) + 1) % t.frame_rate, 0)
    \cup BitsOf(t.ltc.f \div 10, 8)
    \cup BitsOf(t.ltc.s % 10, 16) \cup BitsOf(t.ltc.s \div 10, 24)
    \cup BitsOf(t.ltc.m % 10, 32) \cup BitsOf(t.ltc.m \div 10, 40)
    \cup BitsOf(t.ltc.h % 10, 48) \cup BitsOf(t.ltc.h \div 10, 56)
    \cup (IF t.drop_frame THEN {10} ELSE {})
    \cup (IF t.color_framing THEN {11} ELSE {})
    \cup (IF t.external_clock THEN {58} ELSE {})
    \cup SyncBits

\* The word with the polarity correction always at bit 27, as for 30 fps.
generate_smpte_frame_bits_bit27(t) ==
    t_enc(t) \cup (IF even_parity_bit(t_enc(t)) = 1 THEN {27} ELSE {})

\* TimecodeSource::generate_smpte_frame_bits
generate_smpte_frame_bits(t) ==
    t_enc(t) \cup (IF even_parity_bit(t_enc(t)) = 1
                   THEN {IF t.frame_rate = 25 THEN 59 ELSE 27} ELSE {})

\* TimecodeSource::advance_by_samples; the progress is cast to u16.
advance_by_samples(t, samples, sample_rate) ==
    [t EXCEPT !.ltc = add_progress(@,
        MulDiv(samples * t.frame_rate, ProgressPerFrame, sample_rate)
            % ProgressPerFrame)]

\* TimecodeInstant::sub_us: the same conversion as add_us, taken off; the
\* instant does not go below 00:00:00:00.
sub_us(t, us) ==
    LET frames == (us * t.frame_rate) \div 1000000
        rest == (us * t.frame_rate) % 1000000
        p == (rest * 1024) \div 15625
        borrow == IF t.frame_progress < p THEN 1 ELSE 0
        total == ((t.h * 60 + t.m) * 60 + t.s) * t.frame_rate + t.f
        left == total - frames - borrow
    IN  IF left < 0 THEN [t EXCEPT !.h = 0, !.m = 0, !.s = 0, !.f = 0, !.frame_progress = 0]
        ELSE AddFrames([t EXCEPT !.h = 0, !.m = 0, !.s = 0, !.f = 0,
                                 !.frame_progress =
                                     (t.frame_progress + borrow * ProgressPerFrame) - p],
                       left)

\* The last TimecodeEvent among events, or time if there is none.
RECURSIVE LastTimecode(_, _)
LastTimecode(time, events) ==
    IF events = <<>> THEN time
    ELSE LastTimecode(IF Head(events).kind = "Timecode" THEN Head(events).time ELSE time,
                      Tail(events))

RECURSIVE TcWalk(_, _, _, _)
TcWalk(cue, i, n, time) ==
    IF i >= n THEN time
    ELSE TcWalk(cue, i + 1, n, add_us(time, BeatLength(cue, i)))

\* TimecodeSource::calculate_time_at_beat.  The cursor is made once, before the
\* loop over the beats, and its inner loop runs up to beat_idx: the first beat's
\* turn takes every event up to beat_idx off it and keeps those of beat 0, so
\* the later beats find none.
TcCalculateTimeAtBeat(t, c, beat_idx) ==
    LET start == IF beat_idx > 0
                 THEN LastTimecode(NewInstant(t.frame_rate), EventsAt(c.cue, 0))
                 ELSE NewInstant(t.frame_rate)
    IN  TcWalk(c.cue, 0, beat_idx, start)

\* TimecodeSource::calculate_frame_overlap: when the timecode has moved since
\* the last cycle, the word of the timecode is rendered into the second half
\* of frame_buffer.
calculate_frame_overlap(t) ==
    IF ~SameFrame(t.last_cycle_frame, t.ltc)
    THEN [t EXCEPT !.frame_bits = t.next_frame_bits,
                   !.next_frame_bits = generate_smpte_frame_bits(t)]
    ELSE t

\* calculate_frame_overlap, lines 188-189
SamplesPerBit(t, sample_rate) == (sample_rate \div t.frame_rate) \div 80

\* calculate_frame_overlap, lines 191-192
subframe_sample(t, sample_rate) ==
    (t.ltc.frame_progress * (sample_rate \div t.frame_rate)) \div ProgressPerFrame

\* generate_smpte_frame_buffer, lines 123-134: the biphase mark square wave of
\* the word at sample i, in units of the volume.  The parity starts at 1 and
\* turns over at the start of every bit and in the middle of a set bit; behind
\* the 80 bits the buffer is zero.
biphase(bits, i, samples_per_bit) ==
    IF i >= 80 * samples_per_bit THEN 0
    ELSE IF ((i \div samples_per_bit) + 1
             + Cardinality({b \in bits : b < i \div samples_per_bit})
             + (IF /\ (i \div samples_per_bit) \in bits
                   /\ samples_per_bit > 1
                   /\ i % samples_per_bit >= samples_per_bit \div 2
                THEN 1 ELSE 0)) % 2 = 0
         THEN 1 ELSE -1

LP_WIDTH == 2

FrameBufLen == 2048

\* TimecodeSource::low_pass: the weights 0, 1, 2, 1 on the samples idx-2 ..
\* idx+1, the first and the last LP_WIDTH samples left at zero.  The result is
\* in units of a third of the volume (the division by 3 is left out).
low_pass(bits, idx, samples_per_bit) ==
    IF idx < LP_WIDTH \/ idx >= FrameBufLen - LP_WIDTH THEN 0
    ELSE biphase(bits, idx - 1, samples_per_bit) + 2 * biphase(bits, idx, samples_per_bit)
         + biphase(bits, idx + 1, samples_per_bit)

\* The sample j of frame_buffer: the first frame, then the next frame, then
\* zeros.
FrameBufferAt(t, j, sample_rate) ==
    IF j < sample_rate \div t.frame_rate
    THEN IF t.frame_bits = {} THEN 0
         ELSE low_pass(t.frame_bits, j, SamplesPerBit(t, sample_rate))
    ELSE IF j < 2 * (sample_rate \div t.frame_rate) /\ t.next_frame_bits # {}
    THEN low_pass(t.next_frame_bits, j - sample_rate \div t.frame_rate,
                  SamplesPerBit(t, sample_rate))
    ELSE 0

\* TimecodeSource::frame, line 227: the samples the cycle returns.
FrameOutput(t, n, sample_rate) ==
    [i \in 1 .. n |-> FrameBufferAt(t, subframe_sample(t, sample_rate) + i - 1, sample_rate)]

\* TimecodeSource::frame
\* TimecodeSource::frame, line 226
MarkCycle(t) == [t EXCEPT !.last_cycle_frame = t.ltc]

\* TimecodeSource::frame
TcFrame(t, n, sample_rate) ==
    MarkCycle(calculate_frame_overlap(
        IF t.running THEN advance_by_samples(t, n, sample_rate) ELSE t))

\* TimecodeSource::command
TcCommand(t, cmd, c) ==
    CASE cmd.op = "TransportZero" ->
            [t EXCEPT !.ltc = [@ EXCEPT !.h = 0, !.m = 0, !.s = 0, !.f = 0,
                                        !.frame_progress = 0]]
      [] cmd.op = "TransportStop" -> [t EXCEPT !.running = FALSE]
      [] cmd.op = "TransportStart" -> [t EXCEPT !.running = TRUE]
      [] cmd.op = "TransportJumpBeat" /\ ~c.running ->
            [t EXCEPT !.ltc = TcCalculateTimeAtBeat(t, c, cmd.a)]
      [] cmd.op = "TransportSeekBeat" /\ ~c.running ->
            [t EXCEPT !.ltc = sub_us(TcCalculateTimeAtBeat(t, c, cmd.a),
                                     c.us_to_next_beat)]
      [] OTHER -> t

\* TimecodeSource::send_buffer
TcSendBuffer(t, c) ==
    IF ~c.running \/ ~t.running THEN t
    ELSE TcFrame(t, c.frame_size, SampleRate)

\* TimecodeSource::event_will_occur
TcEventWillOccur(t, c, event) ==
    IF event.kind = "Timecode" /\ c.beat.next_beat_idx = event.location
    THEN [t EXCEPT !.ltc = event.time, !.running = event.time.h <= 24]
    ELSE t

RECURSIVE TcEventsWillOccur(_, _, _)
TcEventsWillOccur(t, c, events) ==
    IF events = <<>> THEN t
    ELSE TcEventsWillOccur(TcEventWillOccur(t, c, Head(events)), c, Tail(events))

\* ---------------------------------------------------------- processor.rs

\* The realtime state the handlers work on, as one value:
\*   ap, met, tc, pb, gain as the variables; q the command channel; out the
\*   messages sent, fired the events handed out and issued the commands put on
\*   the channel so far in this step; panicked.
Bundle ==
    [ap |-> ap, met |-> met, tc |-> tc, pb |-> pb, gain |-> gain, q |-> cmd_q,
     out |-> <<>>, fired |-> <<>>, issued |-> <<>>, panicked |-> panicked]

NewStatus ==
    [running |-> FALSE, vlt |-> FALSE, playrate_percent |-> 100, us_to_next_beat |-> 0,
     ltc |-> NewInstant(25), cue |-> EmptyCue, cue_idx |-> 0, beat |-> NewBeatState,
     status_changed_flag |-> FALSE]

TransportOf(a) ==
    [running |-> a.running, vlt |-> a.vlt, playrate_percent |-> a.playrate_percent,
     us_to_next_beat |-> a.us_to_next_beat, ltc |-> a.ltc]

\* AudioProcessor::notify_push: the message built from the status as it is now.
notify_push(s, type) ==
    LET payload ==
            CASE type = "TransportData" -> TransportOf(s.ap)
              [] type = "BeatData" -> s.ap.beat
              [] type = "CueData" -> [cue |-> s.ap.cue, cue_idx |-> s.ap.cue_idx]
              [] OTHER -> show
    IN  [s EXCEPT !.out = Append(@, [type |-> type, payload |-> payload])]

\* AudioProcessor::send_all_status
send_all_status(s) ==
    notify_push(notify_push(notify_push(notify_push(s,
        "TransportData"), "BeatData"), "CueData"), "ShowData")

\* cbnet.command putting the command at the front of the channel.
command_front(s, cmd) == [s EXCEPT !.q = <<cmd>> \o @, !.issued = Append(@, cmd)]

\* cbnet.command from the realtime thread
command(s, cmd) == [s EXCEPT !.q = Append(@, cmd), !.issued = Append(@, cmd)]

\* AudioProcessor::load_cue
load_cue(s, cue) ==
    LET s1 == [s EXCEPT !.ap.running = FALSE, !.ap.cue = cue]
        s2 == command(command(s1, Cmd("TransportStop", 0, 0)),
                      Cmd("TransportZero", 0, 0))
    IN  notify_push(s2, "CueData")

\* AudioProcessor::update_context
update_context(a, t, n) ==
    [jack_time |-> t, frame_size |-> n, beat |-> a.beat, running |-> a.running,
     vlt |-> a.vlt, playrate_percent |-> a.playrate_percent,
     us_to_next_beat |-> a.us_to_next_beat, cue |-> a.cue]

NewContext ==
    [jack_time |-> 0, frame_size |-> 0, beat |-> NewBeatState, running |-> FALSE,
     vlt |-> FALSE, playrate_percent |-> 100, us_to_next_beat |-> 0, cue |-> EmptyCue]

\* AudioProcessor::send_beat_events_to_children: the events at beat_idx, each
\* handed to every source.  event_occured changes no source; event_will_occur
\* changes the timecode source.
send_beat_events_to_children(s, c, beat_idx, pre_event) ==
    LET events == EventsAt(s.ap.cue, beat_idx)
        log == [i \in 1 .. Len(events) |-> [event |-> events[i], pre |-> pre_event]]
    IN  [s EXCEPT !.tc = IF pre_event THEN TcEventsWillOccur(@, c, events) ELSE @,
                  !.fired = @ \o log]

\* AudioProcessor::compile_child_statuses: get_status of every source, the beat
\* state and us_to_next_beat of the metronome and the timecode of the timecode
\* source adopted, the requested VLT action applied; the post-fire pass if the
\* status' beat index has changed.
\* Lines 139-149: the statuses m of the metronome and s.tc of the timecode
\* source written into the status.
AdoptStatuses(s, m) ==
    [s EXCEPT !.met = m,
              !.ap.beat = BeatStateOf(m),
              !.ap.us_to_next_beat = m.us_to_next_beat,
              !.ap.vlt = vlt(m.requested_vlt_action, s.ap.vlt),
              !.ap.ltc = s.tc.ltc]

\* Lines 151-153: the post-fire pass, current_beat being the status' beat index
\* before the statuses were adopted.
PostFire(s, c, current_beat) ==
    IF s.ap.beat.beat_idx # current_beat
    THEN send_beat_events_to_children(s, c, s.ap.beat.beat_idx, FALSE)
    ELSE s

compile_child_statuses(s, c) ==
    PostFire(AdoptStatuses(s, MetGetStatus(s.met, c)), c, s.ap.beat.beat_idx)

\* The match of handle_command with the index of LoadCueByIndex taken on trust,
\* as the control loop takes it.
HandleMatchUnchecked(s, cmd) ==
    CASE cmd.op = "DumpStatus" -> send_all_status(s)
      [] cmd.op = "TransportStart" ->
            notify_push([s EXCEPT !.ap.running = TRUE], "TransportData")
      [] cmd.op = "TransportStop" ->
            notify_push([s EXCEPT !.ap.running = FALSE], "TransportData")
      [] cmd.op \in {"TransportSeekBeat", "TransportJumpBeat"} ->
            [s EXCEPT !.ap.status_changed_flag = TRUE]
      [] cmd.op = "LoadCueByIndex" ->
            IF cmd.a < Len(show) % U8
            THEN [load_cue(s, show[cmd.a + 1]) EXCEPT !.ap.cue_idx = cmd.a]
            ELSE [s EXCEPT !.ap.cue_idx = cmd.a, !.ap.running = FALSE]
      [] cmd.op = "SetChannelGain" ->
            IF cmd.a \in Sources
            THEN [s EXCEPT !.gain[cmd.a] = set_gain(@, cmd.b)]
            ELSE [s EXCEPT !.panicked = TRUE]
      [] cmd.op = "ChangeJumpMode" ->
            notify_push([s EXCEPT !.ap.vlt = vlt(cmd.a, @)], "TransportData")
      [] cmd.op = "ChangePlayrate" ->
            notify_push([s EXCEPT !.ap.playrate_percent = cmd.a], "TransportData")
      [] OTHER -> s

\* The match of handle_command (lines 85-121).
HandleMatch(s, cmd) ==
    CASE cmd.op = "DumpStatus" -> send_all_status(s)
      [] cmd.op = "TransportStart" ->
            notify_push([s EXCEPT !.ap.running = TRUE], "TransportData")
      [] cmd.op = "TransportStop" ->
            notify_push([s EXCEPT !.ap.running = FALSE], "TransportData")
      [] cmd.op \in {"TransportSeekBeat", "TransportJumpBeat"} ->
            [s EXCEPT !.ap.status_changed_flag = TRUE]
      [] cmd.op = "LoadCueByIndex" ->
            IF cmd.a < Len(show) % U8
            THEN [load_cue(s, show[cmd.a + 1]) EXCEPT !.ap.cue_idx = cmd.a]
            ELSE s
      [] cmd.op = "SetChannelGain" ->
            IF cmd.a \in Sources
            THEN [s EXCEPT !.gain[cmd.a] = set_gain(@, cmd.b)]
            ELSE [s EXCEPT !.panicked = TRUE]
      [] cmd.op = "ChangeJumpMode" ->
            notify_push([s EXCEPT !.ap.vlt = vlt(cmd.a, @)], "TransportData")
      [] cmd.op = "ChangePlayrate" ->
            notify_push([s EXCEPT !.ap.playrate_percent = cmd.a], "TransportData")
      [] OTHER -> s

\* Lines 123-127: the command passed on to every source.
SourcesCommand(s, cmd, c) ==
    IF PbCommandFaults(cmd, c)
    THEN [s EXCEPT !.met = MetCommand(@, cmd), !.tc = TcCommand(@, cmd, c),
                   !.panicked = TRUE]
    ELSE [s EXCEPT !.met = MetCommand(@, cmd), !.tc = TcCommand(@, cmd, c),
                   !.pb = PbCommand(@, cmd, c)]

\* AudioProcessor::handle_command
\* (an abort ends the handler where it happens)
ThenSources(s, cmd, c) == IF s.panicked THEN s ELSE SourcesCommand(s, cmd, c)

\* Line 129
ThenCompile(s, c) == IF s.panicked THEN s ELSE compile_child_statuses(s, c)

\* Lines 131-134
ThenZeroNotice(s, cmd) ==
    IF ~s.panicked /\ cmd.op = "TransportZero"
    THEN notify_push(notify_push(s, "BeatData"), "TransportData")
    ELSE s

\* AudioProcessor::handle_command
handle_command(s, cmd, c) ==
    ThenZeroNotice(ThenCompile(ThenSources(HandleMatch(s, cmd), cmd, c), c), cmd)

\* The cue-exhaustion test of process (lines 234-241).
CueRanOut(a) ==
    /\ ~HasBeat(a.cue, a.beat.beat_idx + 1)
    /\ a.running
    /\ a.beat.beat_idx < BeatSentinel

\* process, lines 243-246
Exhaust(s) ==
    command(command(command([s EXCEPT !.ap.running = FALSE],
        Cmd("TransportStop", 0, 0)), Cmd("LoadNextCue", 0, 0)),
        Cmd("TransportZero", 0, 0))

\* process, lines 256-260: send_buffer of every source under the context c.
ProduceAudio(s, c, slots) ==
    IF PbSendBufferFaults(s.pb, c, slots)
    THEN [s EXCEPT !.met = MetSendBuffer(@, c), !.tc = TcSendBuffer(@, c),
                   !.panicked = TRUE]
    ELSE [s EXCEPT !.met = MetSendBuffer(@, c), !.tc = TcSendBuffer(@, c),
                   !.pb = PbSendBuffer(@, c, slots)]

\* process, lines 262-265, with the flag left as it is.
EndOfCycle_flag_kept(s) ==
    IF s.ap.running \/ s.ap.status_changed_flag
    THEN notify_push(s, "TransportData")
    ELSE s

\* process, lines 262-265
EndOfCycle(s) ==
    IF s.ap.running \/ s.ap.status_changed_flag
    THEN [notify_push(s, "TransportData") EXCEPT !.ap.status_changed_flag = FALSE]
    ELSE s

\* process, lines 234-247: the cue-exhaustion step.
ThenExhaust(s) == IF CueRanOut(s.ap) THEN Exhaust(s) ELSE s

\* process, lines 249-252: the pre-fire pass under the context c of line 229.
PreFire(s, c) ==
    IF will_overrun_frame(c)
    THEN send_beat_events_to_children(s, c, s.ap.beat.next_beat_idx, TRUE)
    ELSE s

\* process, lines 262-267, s being the state after the buffers.
ThenEndOfCycle(s) == IF s.panicked THEN s ELSE EndOfCycle(s)

\* process, lines 254-267: the second update_context, the buffers, the
\* closing notification.
Buffers(s, t, n, slots, ran_out) ==
    [s |-> ThenEndOfCycle(ProduceAudio(s, update_context(s.ap, t, n), slots)),
     c |-> update_context(s.ap, t, n),
     ran_out |-> ran_out]

\* process, lines 231-267, s being the state after compile_child_statuses.
AfterCompile(s, c, t, n, slots) ==
    Buffers(PreFire(ThenExhaust(s), c), t, n, slots, CueRanOut(s.ap))

\* process from the point the queue is found empty (lines 229-267); the result
\* carries the context of the second update_context.
ProcessTail(s, t, n, slots) ==
    AfterCompile(compile_child_statuses(s, update_context(s.ap, t, n)),
                 update_context(s.ap, t, n), t, n, slots)

\* ------------------------------------------------- communication/binnet.rs

\* BinaryNetHandler::new: no subscribers, nothing queued; the socket is empty
\* and the wall clock (Utc::now, in seconds) reads 0.  inputs is what the last
\* get_inputs returned, sent the datagrams the last call sent, alive whether
\* the handler has not aborted; op and arg name the last call, arrived counts
\* the datagrams that have reached the socket.
NewNet ==
    [subscribers |-> <<>>, input_queue |-> <<>>, socket |-> <<>>, now |-> 0,
     inputs |-> <<>>, sent |-> <<>>, alive |-> TRUE, op |-> "-", arg |-> "-",
     arrived |-> 0]

\* SubscriberInfo
SubscriberInfo(address, kinds, last_contact) ==
    [address |-> address, message_kinds |-> kinds, last_contact |-> last_contact]

NoInfo == SubscriberInfo("-", {}, 0)

\* A datagram from src: a Request with its SubscriberInfo where it has one, or
\* bytes that do not decode (kind "Undecodable").
Datagram(src, kind, info) == [src |-> src, kind |-> kind, info |-> info]

Request(kind, info) == [kind |-> kind, info |-> info]

\* chrono::Duration::num_minutes of a duration of d seconds
num_minutes(d) == IDiv(d, 60)

\* notify with the subscribers served before the silent ones are dropped
NetNotify_unpruned(nt, type) ==
    [nt EXCEPT
        !.subscribers =
            SelectSeq(@, LAMBDA sub : num_minutes(nt.now - sub.last_contact) < 15),
        !.sent = @ \o
            [i \in 1 .. Len(SelectSeq(nt.subscribers, LAMBDA sub :
                                type \in sub.message_kinds)) |->
                [to |-> SelectSeq(nt.subscribers, LAMBDA sub :
                                type \in sub.message_kinds)[i].address,
                 type |-> type]]]

\* BinaryNetHandler::notify: the subscribers not heard of for 15 minutes are
\* dropped, the others are sent the notification if they take its type.
NetNotify(nt, type) ==
    [nt EXCEPT
        !.subscribers =
            SelectSeq(@, LAMBDA sub : num_minutes(nt.now - sub.last_contact) < 15),
        !.sent = @ \o
            [i \in 1 .. Len(SelectSeq(nt.subscribers, LAMBDA sub :
                                /\ num_minutes(nt.now - sub.last_contact) < 15
                                /\ type \in sub.message_kinds)) |->
                [to |-> SelectSeq(nt.subscribers, LAMBDA sub :
                                /\ num_minutes(nt.now - sub.last_contact) < 15
                                /\ type \in sub.message_kinds)[i].address,
                 type |-> type]]]

\* BinaryNetHandler::publish_subscribers
publish_subscribers(nt) == NetNotify(nt, "NetworkChanged")

\* get_inputs, lines 64-70: the subscribers at the sender's address are marked
\* as heard of now.
Contacted(nt, src) ==
    [nt EXCEPT !.subscribers =
        [i \in 1 .. Len(@) |->
            IF @[i].address = src THEN [@[i] EXCEPT !.last_contact = nt.now] ELSE @[i]]]

\* get_inputs, lines 86-121: the handler's own part in a decoded request.
NetOwnRequest(nt, msg) ==
    CASE msg.kind = "Subscribe" ->
            [publish_subscribers(
                [nt EXCEPT !.subscribers =
                    IF \E i \in 1 .. Len(@) : @[i].address = msg.info.address
                    THEN [i \in 1 .. Len(@) |->
                            IF @[i].address = msg.info.address
                            THEN [@[i] EXCEPT !.message_kinds = msg.info.message_kinds]
                            ELSE @[i]]
                    ELSE Append(@, msg.info)])
                EXCEPT !.input_queue = Append(@, Request("NotifySubscribers", NoInfo))]
      [] msg.kind = "Unsubscribe" ->
            publish_subscribers(
                [nt EXCEPT !.subscribers =
                    SelectSeq(@, LAMBDA sub : sub.address # msg.info.address)])
      [] OTHER -> nt

\* get_inputs, lines 122-127 with the limit of get_all_inputs (usize::MAX, never
\* exceeded): the request is queued and the queue moved to the result.
NetQueue(nt, msg) ==
    [nt EXCEPT !.inputs = @ \o Append(nt.input_queue, msg), !.input_queue = <<>>]

\* get_inputs, lines 69-84: bytes that do not decode abort the handler (panic!),
\* and nothing is returned.
NetDecode(nt, d) ==
    IF d.kind = "Undecodable" THEN [nt EXCEPT !.alive = FALSE, !.inputs = <<>>]
    ELSE NetQueue(NetOwnRequest(nt, Request(d.kind, d.info)), Request(d.kind, d.info))

\* The loop of get_inputs over the datagrams the socket holds.
RECURSIVE NetReceiveAll(_)
NetReceiveAll(nt) ==
    IF nt.socket = <<>> \/ ~nt.alive THEN nt
    ELSE NetReceiveAll(NetDecode(Contacted([nt EXCEPT !.socket = Tail(@)],
                                           Head(nt.socket).src),
                                 Head(nt.socket)))

\* BinaryNetHandler::get_inputs as get_all_inputs calls it
get_all_inputs(nt) ==
    NetReceiveAll([nt EXCEPT !.inputs = nt.input_queue, !.input_queue = <<>>,
                             !.sent = <<>>, !.op = "get_inputs", !.arg = "-"])

\* No function applied yet.
NoProbe == [fn |-> "-"]

\* ------------------------------------------------------------------ main.rs

\* The channels of the configuration (config.channels).
ConfigChannels == 32

\* The control loop about to run: alive while it has neither left the loop nor
\* aborted; shutdown_occured once ShutdownOccured has been handed to nh.notify.
NewMain(budget) ==
    [cue_idx |-> 0, pending |-> NoCmd, budget |-> budget, alive |-> TRUE,
     shutdown_occured |-> FALSE]

\* The control loop's own handling of a ControlAction request after it has put it
\* on the command channel (lines 139-163).  show.cues[idx] on a cue the show does
\* not have, and config.channels[channel] on a channel the configuration does
\* not have, abort the control loop.
MainHandle(m, cmd) ==
    CASE cmd.op = "LoadCueByIndex" ->
            [m |-> [m EXCEPT !.cue_idx = cmd.a, !.alive = cmd.a < Len(show)],
             send |-> <<>>, load |-> cmd.a < Len(show)]
      [] cmd.op = "SetChannelGain" ->
            [m |-> [m EXCEPT !.alive = cmd.a < ConfigChannels],
             send |-> <<>>, load |-> FALSE]
      [] cmd.op = "LoadPreviousCue" /\ m.cue_idx > 0 ->
            [m |-> [m EXCEPT !.cue_idx = m.cue_idx - 1],
             send |-> <<Cmd("LoadCueByIndex", m.cue_idx - 1, 0)>>, load |-> TRUE]
      [] cmd.op = "LoadNextCue" /\ m.cue_idx + 1 < Len(show) ->
            [m |-> [m EXCEPT !.cue_idx = m.cue_idx + 1],
             send |-> <<Cmd("LoadCueByIndex", m.cue_idx + 1, 0)>>, load |-> TRUE]
      [] OTHER -> [m |-> m, send |-> <<>>, load |-> FALSE]

\* The requests on which the control loop sends further commands or loads
\* clips after it has forwarded them.
MainActsOn(cmd) == cmd.op \in {"LoadCueByIndex", "LoadPreviousCue", "LoadNextCue"}

\* Request::Shutdown (lines 178-189): ShutdownOccured is sent, the audio is
\* shut down, the loop is left.
MainShutdown(m) == [m EXCEPT !.alive = FALSE, !.shutdown_occured = TRUE]

\* ---------------------------------------------------------------- actions

\* The commands that move the transport to a beat.
SeekOps == {"TransportSeekBeat", "TransportJumpBeat"}

\* A message of the type is among the messages out.
Emits(out, type) == \E i \in 1 .. Len(out) : out[i].type = type

\* History of the command channel: the commands cmds as put on the channel now,
\* own for those the processor issues to itself.
Sent(cmds, own) ==
    [i \in 1 .. Len(cmds) |-> [cmd |-> cmds[i], own |-> own, cycle |-> cycles]]

\* History of the command channel: handle_command is called with cmd.  The
\* oldest command not yet handled is struck off; in_order falls if cmd is not it.
Struck(h, cmd) ==
    [h EXCEPT !.pending = IF @ = <<>> THEN <<>> ELSE Tail(@),
              !.in_order = @ /\ h.pending # <<>> /\ Head(h.pending).cmd = cmd]

Running == main.alive /\ ~panicked

\* The driver's period for the buffer size, in microseconds.
Period(n) == (n * 1000000) \div SampleRate

\* A request arrives: the control loop puts the command on the channel (line 138).
ClientSend(cmd) ==
    /\ Running
    /\ main.pending = NoCmd
    /\ main.budget > 0
    /\ cmd_q' = Append(cmd_q, cmd)
    /\ main' = IF MainActsOn(cmd)
               THEN [main EXCEPT !.pending = cmd, !.budget = @ - 1]
               ELSE [MainHandle(main, cmd).m EXCEPT !.budget = @ - 1]
    /\ hist' = [hist EXCEPT !.pending = @ \o Sent(<<cmd>>, FALSE)]
    /\ UNCHANGED <<net, probe, show, ap, met, tc, pb, gain, ctx, clips, emitted, pc, jack_time,
                   frame_size, cycles, panicked, fired>>

\* ... and then acts on it itself (lines 139-163).
MainFollowUp ==
    /\ Running
    /\ main.pending # NoCmd
    /\ \E r \in {MainHandle(main, main.pending)} :
           /\ main' = [r.m EXCEPT !.pending = NoCmd]
           /\ cmd_q' = cmd_q \o r.send
           /\ clips' = IF r.load THEN LoaderLoadCue(clips, show[r.m.cue_idx + 1])
                       ELSE clips
           /\ hist' = [hist EXCEPT !.pending = @ \o Sent(r.send, FALSE)]
    /\ UNCHANGED <<net, probe, show, ap, met, tc, pb, gain, ctx, emitted, pc, jack_time,
                   frame_size, cycles, panicked, fired>>

\* A Shutdown request arrives.
Shutdown ==
    /\ Running
    /\ main.pending = NoCmd
    /\ main.budget > 0
    /\ main' = [MainShutdown(main) EXCEPT !.budget = @ - 1]
    /\ UNCHANGED <<net, probe, show, ap, met, tc, pb, gain, ctx, clips, cmd_q, emitted,
                   pc, jack_time, frame_size, cycles, panicked, fired, hist>>

\* The driver calls process: the cycle begins (first cycle at the initial clock).
Begin(more) ==
    /\ Running
    /\ pc = "idle"
    /\ more
    /\ pc' = "drain"
    /\ cycles' = cycles + 1
    /\ jack_time' = IF cycles = 0 THEN jack_time ELSE jack_time + Period(frame_size)
    /\ hist' = [hist EXCEPT !.cmd = NoCmd, !.prev = NoCmd]
    /\ UNCHANGED <<net, probe, show, ap, met, tc, pb, gain, ctx, clips, cmd_q, emitted, frame_size,
                   panicked, main, fired>>

\* One turn of the drain loop: try_recv yields a command, handle_command runs.
DrainOne ==
    /\ Running
    /\ pc = "drain"
    /\ cmd_q # <<>>
    /\ \E r \in {handle_command([Bundle EXCEPT !.q = Tail(cmd_q)], Head(cmd_q), ctx)} :
           /\ ap' = r.ap
           /\ met' = r.met
           /\ tc' = r.tc
           /\ pb' = r.pb
           /\ gain' = r.gain
           /\ cmd_q' = r.q
           /\ emitted' = r.out
           /\ fired' = r.fired
           /\ panicked' = r.panicked
           /\ hist' = [Struck(hist, Head(cmd_q)) EXCEPT
                           !.cmd = Head(cmd_q), !.prev = hist.cmd, !.vlt = ap.vlt,
                           !.beat_idx = met.beat_idx,
                           !.pending = @ \o Sent(r.issued, TRUE),
                           !.seeked = @ \/ Head(cmd_q).op \in SeekOps,
                           !.target = IF Head(cmd_q).op \in SeekOps
                                      THEN Head(cmd_q).a ELSE @]
    /\ UNCHANGED <<net, probe, show, ctx, clips, pc, jack_time, frame_size, cycles, main>>

\* try_recv finds the channel empty: the rest of the cycle.
Produce ==
    /\ Running
    /\ pc = "drain"
    /\ cmd_q = <<>>
    /\ \E r \in {ProcessTail(Bundle, jack_time, frame_size, clips)} :
           /\ ap' = r.s.ap
           /\ met' = r.s.met
           /\ tc' = r.s.tc
           /\ pb' = r.s.pb
           /\ gain' = r.s.gain
           /\ cmd_q' = r.s.q
           /\ emitted' = r.s.out
           /\ fired' = r.s.fired
           /\ panicked' = r.s.panicked
           /\ ctx' = r.c
           /\ hist' = [hist EXCEPT !.cmd = NoCmd, !.prev = NoCmd,
                                   !.ran_out = IF r.ran_out THEN ap.cue_idx ELSE @,
                                   !.pending = @ \o Sent(r.s.issued, TRUE),
                                   !.seeked = @ /\ ~Emits(r.s.out, "TransportData")]
    /\ pc' = "idle"
    /\ UNCHANGED <<net, probe, show, clips, jack_time, frame_size, cycles, main>>

\* ------------------------------------------------------- the general model

\* A show of two cues.  Cue 0 jumps unconditionally from beat 1 to beat 2 and
\* toggles VLT; it starts clip 0 on the playback channel at beat 2.
CueA ==
    MkCue(<<1000, 3000, 3000>>,
          <<JumpEvent(1, 2, "None", "Toggle", "None"), PlaybackEvent(2, PbChannel, 0, 0)>>)

CueB == MkCue(<<1000, 1000>>, <<>>)

Shows == {<<CueA, CueB>>}

FrameSizes == {64}

\* The driver's clock when the callback is first called.
StartTimes == {1000000}

CueIndices == {0, 1, 2}
BeatIndices == {2}
Channels == {0, 2}
Gains == {-6, 6}

ClientCmds ==
    {Cmd(op, 0, 0) : op \in {"TransportStart", "TransportStop", "TransportZero",
                             "LoadNextCue", "LoadPreviousCue", "DumpStatus"}}
    \cup {Cmd("LoadCueByIndex", i, 0) : i \in CueIndices}
    \cup {Cmd(op, b, 0) : op \in {"TransportSeekBeat", "TransportJumpBeat"},
                          b \in BeatIndices}
    \cup {Cmd("SetChannelGain", ch, g) : ch \in Channels, g \in Gains}
    \cup {Cmd("ChangeJumpMode", m, 0) : m \in VltActions}

NoHistory ==
    [cmd |-> NoCmd, prev |-> NoCmd, vlt |-> FALSE, beat_idx |-> 0, ran_out |-> -1,
     samples |-> 0, pending |-> <<>>, in_order |-> TRUE, seeked |-> FALSE,
     target |-> -1]

\* AudioProcessor::new (and the construction of its sources in main.rs), but
\* for the timecode source, the network handler and the function applied.
ConstructedAround(sh, n, t, budget) ==
    /\ show = sh
    /\ ap = NewStatus
    /\ met = NewMetronome
    /\ pb = NewPlaybackDevice
    /\ gain = [s \in Sources |-> NewSource]
    /\ ctx = NewContext
    /\ clips = NewClips(sh)
    /\ cmd_q = <<Cmd("LoadCueByIndex", 0, 0)>>
    /\ emitted = <<>>
    /\ pc = "idle"
    /\ jack_time = t
    /\ frame_size = n
    /\ cycles = 0
    /\ panicked = FALSE
    /\ main = NewMain(budget)
    /\ fired = <<>>
    /\ hist = [NoHistory EXCEPT !.pending = Sent(cmd_q, TRUE)]

\* The program constructed, the timecode source being source.
ConstructedWith(sh, n, t, budget, source) ==
    /\ ConstructedAround(sh, n, t, budget)
    /\ tc = source
    /\ net = NewNet
    /\ probe = NoProbe

\* The program constructed and nothing asked of it.
Idle ==
    \E sh \in Shows, n \in FrameSizes, t \in StartTimes : ConstructedAround(sh, n, t, 0)

Constructed(sh, n, t, budget) ==
    ConstructedWith(sh, n, t, budget, NewTimecodeSource(25))

Init ==
    \E sh \in Shows, n \in FrameSizes, t \in StartTimes :
        Constructed(sh, n, t, MaxCmds)

Client == \E cmd \in ClientCmds : ClientSend(cmd)

BeginCycle == Begin(cycles < MaxCycles)

Next == Client \/ MainFollowUp \/ BeginCycle \/ DrainOne \/ Produce

Spec == Init /\ [][Next]_vars

TypeOK ==
    /\ pc \in {"idle", "drain"}
    /\ ap.cue_idx \in 0 .. Len(show)
    /\ met.beat_idx >= 0


\* ------------------------------------------------- commands of the processor

\* This step is the realtime thread handling the command cmd.
Handles(cmd) ==
    /\ Running
    /\ pc = "drain"
    /\ cmd_q # <<>>
    /\ Head(cmd_q) = cmd
    /\ main' = main
    /\ vars' # vars

\* This step is the rest of a cycle, from the empty channel to the audio.
Produces ==
    /\ Running
    /\ pc = "drain"
    /\ pc' = "idle"

C7_TransportZero ==
    [][Handles(Cmd("TransportZero", 0, 0)) =>
          /\ met'.beat_idx = 0
          /\ met'.next_beat_idx = 0
          /\ met'.last_beat_time = 0
          /\ ap'.beat.beat_idx = 0
          /\ ap'.beat.next_beat_idx = 0]_vars

\* TransportZero has just been handled on a metronome that had left beat 0.
C7_Witness ==
    /\ hist.cmd.op = "TransportZero"
    /\ hist.beat_idx > 0
    /\ met.beat_idx = 0
    /\ met.next_beat_idx = 0
    /\ met.last_beat_time = 0

TwoToggles(cmd) ==
    /\ cmd = Cmd("ChangeJumpMode", "Toggle", 0)
    /\ hist.cmd = cmd

\* The status has adopted the metronome's beat state: no beat, and no VLT
\* action a jump requested, is still to be compiled.
Compiled == ap.beat = BeatStateOf(met)

\* C8: handling ChangeJumpMode(m) with transport.vlt = v leaves
\* transport.vlt = apply(m, v); after two consecutive ChangeJumpMode(Toggle)
\* transport.vlt is what it was before the first.  (Stated for the handlings
\* that find the beat state compiled, so that no jump of the cue is involved.)
C8_ChangeJumpMode ==
    [][\A m \in VltActions :
          (Handles(Cmd("ChangeJumpMode", m, 0)) /\ Compiled) =>
              /\ ap'.vlt = vlt(m, ap.vlt)
              /\ TwoToggles(Cmd("ChangeJumpMode", m, 0)) => ap'.vlt = hist.vlt]_vars

\* The metronome holds a requested VLT action other than None when
\* ChangeJumpMode has just been handled.
C8_Witness ==
    /\ hist.cmd.op = "ChangeJumpMode"
    /\ met.requested_vlt_action # NoneAction
    /\ Compiled

CueData(out) == SelectSeq(out, LAMBDA msg : msg.type = "CueData")

\* C9: handling LoadCueByIndex(i) twice in a row, i below the number of cues,
\* from any loaded cue j, produces a single cue notification or two with the
\* same payload: the same cue and cue_idx = i.
C9_LoadTwice ==
    [][\A i \in CueIndices :
          (/\ Handles(Cmd("LoadCueByIndex", i, 0))
           /\ hist.cmd = Cmd("LoadCueByIndex", i, 0)
           /\ i < Len(show)) =>
              LET both == CueData(emitted) \o CueData(emitted')
              IN  \/ Len(both) = 1
                  \/ /\ Len(both) = 2
                     /\ both[1].payload = both[2].payload
                     /\ both[2].payload = [cue |-> show[i + 1], cue_idx |-> i]]_vars

\* The same valid LoadCueByIndex has been handled twice in a row.
C9_Witness ==
    /\ hist.cmd.op = "LoadCueByIndex"
    /\ hist.prev = hist.cmd
    /\ hist.cmd.a < Len(show)
    /\ Len(CueData(emitted)) = 1

\* ------------------------------------------------------------ channel gain

\* Clients that start the transport and set gains.
GainClientCmds ==
    {Cmd("TransportStart", 0, 0)}
    \cup {Cmd("SetChannelGain", ch, g) : ch \in Channels, g \in Gains}

InitGain ==
    \E sh \in Shows, n \in FrameSizes, t \in StartTimes :
        Constructed(sh, n, t, GainCmds)

ClientGain == \E cmd \in GainClientCmds : ClientSend(cmd)

NextGain == ClientGain \/ BeginCycle \/ DrainOne \/ Produce

SpecGain == InitGain /\ [][NextGain]_vars

\* The state of the processor and of its sources.
ProcessorState == <<ap, met, tc, pb, gain>>

\* C10: every channel's gain_mult is the one derived from the last gain set,
\* 10^(g/20), and handling SetChannelGain(ch, g) a second time leaves exactly
\* the processor state that handling it once left.
C10_SetChannelGain ==
    [][/\ \A ch \in Sources : gain'[ch].gain_mult = Pow10Div20(gain'[ch].gain)
       /\ \A ch \in Channels, g \in Gains :
             Handles(Cmd("SetChannelGain", ch, g)) =>
                 /\ gain'[ch].gain = g
                 /\ hist.cmd = Cmd("SetChannelGain", ch, g) =>
                        ProcessorState' = ProcessorState]_vars

\* The same SetChannelGain has been handled twice in a row.
C10_Witness ==
    /\ hist.cmd.op = "SetChannelGain"
    /\ hist.prev = hist.cmd
    /\ gain[hist.cmd.a] = [gain |-> hist.cmd.b, gain_mult |-> Pow10Div20(hist.cmd.b)]

\* ------------------------------------------------------- one cue, played out

\* Four beats of 500000 us each.
S1Cue == MkCue(<<500000, 500000, 500000, 500000>>, <<>>)

S1Shows == {<<S1Cue>>, <<S1Cue, CueB>>}

S1FrameSizes == {1024, 2048}

\* The drain loop of process run to the empty channel.
RECURSIVE Drained(_, _)
Drained(s, c) ==
    IF s.q = <<>> \/ s.panicked THEN s
    ELSE Drained(handle_command([s EXCEPT !.q = Tail(@)], Head(s.q), c), c)

\* The processor after its first cycle, at the clock t with buffers of n
\* samples: the LoadCueByIndex(0) of its construction handled, and the
\* commands that sent.
FirstCycle(t, n) ==
    LET s0 == [ap |-> NewStatus, met |-> NewMetronome, tc |-> NewTimecodeSource(25),
               pb |-> NewPlaybackDevice, gain |-> [s \in Sources |-> NewSource],
               q |-> <<Cmd("LoadCueByIndex", 0, 0)>>, out |-> <<>>, fired |-> <<>>,
               panicked |-> FALSE]
    IN  ProcessTail([Drained(s0, NewContext) EXCEPT !.out = <<>>, !.fired = <<>>], t, n,
                    NewClips(show))

\* The first cycle has loaded cue 0 and left the transport stopped; the
\* driver's clock still reads 0, and TransportZero and TransportStart wait on
\* the command channel.
InitS1 ==
    \E sh \in S1Shows, n \in S1FrameSizes :
        /\ show = sh
        /\ \E first \in {FirstCycle(0, n)} :
              /\ ap = first.s.ap
              /\ met = first.s.met
              /\ tc = first.s.tc
              /\ pb = first.s.pb
              /\ gain = first.s.gain
              /\ ctx = first.c
              /\ emitted = first.s.out
              /\ fired = first.s.fired
        /\ clips = NewClips(sh)
        /\ cmd_q = <<Cmd("TransportZero", 0, 0), Cmd("TransportStart", 0, 0)>>
        /\ pc = "idle"
        /\ jack_time = 0
        /\ frame_size = n
        /\ cycles = 0
        /\ panicked = FALSE
        /\ main = NewMain(0)
        /\ net = NewNet
        /\ probe = NoProbe
        /\ hist = [NoHistory EXCEPT !.pending = Sent(cmd_q, TRUE)]

BeginCycleS1 == Begin(jack_time < S1Horizon)

NextS1 == BeginCycleS1 \/ DrainOne \/ Produce

SpecS1 == InitS1 /\ [][NextS1]_vars

\* C2: with a cue of four beats of 500000 us, zeroed and started at
\* jack_time = 0, the beat state reports beat_idx = 1 at jack_time = 600000
\* (beat 1 is entered once 500000 us have passed and lasts until 1000000),
\* whatever the cycle length.
C2_BeatAt600000 ==
    (/\ pc = "idle"
     /\ cycles > 0
     /\ jack_time >= 600000
     /\ jack_time < 1000000) =>
        /\ met.beat_idx = 1
        /\ ap.beat.beat_idx = 1

\* A cycle at a clock of 600000 us or later, within the second beat's time, has
\* been processed with the transport running.
C2_Witness ==
    /\ pc = "idle"
    /\ jack_time >= 600000
    /\ jack_time < 1000000
    /\ ap.running
    /\ ap.cue = S1Cue

\* C3: when the transport runs and the loaded cue has no beat after beat_idx,
\* the processor stops and sends itself TransportStop, LoadNextCue and
\* TransportZero; once they are drained the transport is stopped, the beat
\* indices are zero and the cue index has advanced to the next cue, if any.
C3_CueExhaustion ==
    (/\ hist.ran_out # -1
     /\ pc = "idle"
     /\ cmd_q = <<>>) =>
        /\ ~ap.running
        /\ met.beat_idx = 0
        /\ met.next_beat_idx = 0
        /\ ap.cue_idx = IF hist.ran_out + 1 < Len(show)
                        THEN hist.ran_out + 1 ELSE hist.ran_out

\* The cue has run out in a show that has a next cue, and the commands the
\* processor sent itself have been drained.
C3_Witness ==
    /\ hist.ran_out # -1
    /\ hist.ran_out + 1 < Len(show)
    /\ pc = "idle"
    /\ cmd_q = <<>>
    /\ ~ap.running

\* ------------------------------------------------------------------ jumps

\* Six beats of 1000 us, and on beat 2 a jump to beat 5.
JumpCue(req, jumped, passed) ==
    MkCue(<<1000, 1000, 1000, 1000, 1000, 1000>>, <<JumpEvent(2, 5, req, jumped, passed)>>)

JumpShows ==
    {<<JumpCue(req, jumped, passed)>> :
        req \in Requirements, jumped \in VltActions, passed \in VltActions}

JumpClientCmds == {Cmd("TransportStart", 0, 0), Cmd("ChangeJumpMode", "SetOn", 0)}

InitJump ==
    \E sh \in JumpShows, n \in FrameSizes, t \in StartTimes :
        Constructed(sh, n, t, 2)

ClientJump == \E cmd \in JumpClientCmds : ClientSend(cmd)

BeginCycleJump == Begin(cycles < JumpCycles)

NextJump == ClientJump \/ BeginCycleJump \/ DrainOne \/ Produce

SpecJump == InitJump /\ [][NextJump]_vars

\* The jump events of the loaded cue.
Jumps == {ap.cue.events[i] : i \in {j \in 1 .. Len(ap.cue.events) :
                                       ap.cue.events[j].kind = "Jump"}}

\* This step's send_buffer moves the metronome onto beat k.
Enters(k) ==
    /\ Produces
    /\ met'.last_beat_time # met.last_beat_time
    /\ met'.beat_idx = k

\* The requirement req holds of the VLT flag v.
Satisfied(req, v) ==
    \/ req = "None"
    \/ req = "JumpModeOn" /\ v
    \/ req = "JumpModeOff" /\ ~v

\* C4: when the metronome enters a beat carrying Jump{d, r, a, p}: if r is
\* satisfied by transport.vlt then next_beat_idx = d and the action a is
\* requested, otherwise next_beat_idx stays at the following beat and p is
\* requested; the next compile of the statuses makes transport.vlt the requested
\* action applied to it.
C4_JumpEvaluation ==
    [][\A e \in Jumps :
          /\ Enters(e.location) =>
                IF Satisfied(e.requirement, ctx'.vlt)
                THEN /\ met'.next_beat_idx = e.destination
                     /\ met'.requested_vlt_action = e.when_jumped
                ELSE /\ met'.next_beat_idx = e.location + 1
                     /\ met'.requested_vlt_action = e.when_passed
          /\ (/\ Produces
              /\ met.beat_idx = e.location
              /\ ap.beat.beat_idx # e.location) =>
                ap'.vlt = vlt(IF met.next_beat_idx = e.destination
                              THEN e.when_jumped ELSE e.when_passed, ap.vlt)]_vars

\* Jump{5, JumpModeOn, SetOff, None} on beat 2 was met with VLT on: the
\* metronome has gone from beat 2 to beat 5 and VLT is off.
C4_Witness ==
    /\ ap.cue = JumpCue("JumpModeOn", "SetOff", "None")
    /\ met.beat_idx = 5
    /\ met.requested_vlt_action = "SetOff"
    /\ ~ap.vlt
    /\ cycles < JumpCycles

\* --------------------------------------------------------------- playback

PlayOffsets == {-48, 0}

\* Three beats of 4000 us; beat 1 starts clip 0 on the playback channel at the
\* sample offset off.
PlayCue(off) == MkCue(<<4000, 4000, 4000>>, <<PlaybackEvent(1, PbChannel, 0, off)>>)

PlayShows == {<<PlayCue(off)>> : off \in PlayOffsets}

PlayClientCmds == {Cmd("LoadCueByIndex", 0, 0), Cmd("TransportStart", 0, 0)}

InitPlay ==
    \E sh \in PlayShows, n \in FrameSizes, t \in StartTimes :
        Constructed(sh, n, t, 2)

ClientPlay == \E cmd \in PlayClientCmds : ClientSend(cmd)

BeginCyclePlay == Begin(cycles < PlayCycles)

NextPlay == ClientPlay \/ MainFollowUp \/ BeginCyclePlay \/ DrainOne \/ Produce

SpecPlay == InitPlay /\ [][NextPlay]_vars

\* The beat about to come carries an event for the playback channel.
PlaybackEventDue(c) ==
    \E i \in 1 .. Len(c.cue.events) :
        /\ c.cue.events[i].location = c.beat.next_beat_idx
        /\ c.cue.events[i].channel = PbChannel
        /\ c.cue.events[i].kind \in {"PlaybackStart", "PlaybackStop"}

\* C5: a device armed with current_sample = -k emits k samples of silence and
\* then the clip from sample 0: every cycle of the running transport that
\* finds it in pre-roll on a loaded clip, and no playback event due, moves
\* current_sample on by the buffer size, so that pre-roll ends.
C5_PreRoll ==
    [][(/\ Produces
        /\ ctx'.running
        /\ ~PlaybackEventDue(ctx')
        /\ pb.active
        /\ pb.current_sample < 0
        /\ clips[pb.current_clip + 1].len > 0) =>
            pb'.current_sample = pb.current_sample + frame_size]_vars

\* The device is in pre-roll in a cycle that had no playback event due.
C5_Witness ==
    /\ pc = "idle"
    /\ ctx.running
    /\ ~PlaybackEventDue(ctx)
    /\ pb.active
    /\ pb.current_sample < 0
    /\ clips[pb.current_clip + 1].len > 0

NoChannel == NumSources
NoBeat == 5

ArgClientCmds ==
    {Cmd("TransportStart", 0, 0), Cmd("SetChannelGain", NoChannel, -6),
     Cmd("SetChannelGain", PbChannel, -6),
     Cmd("TransportSeekBeat", NoBeat, 0), Cmd("TransportJumpBeat", NoBeat, 0),
     Cmd("TransportSeekBeat", 1, 0)}

InitArgs ==
    \E sh \in Shows, n \in FrameSizes, t \in StartTimes :
        Constructed(sh, n, t, ArgCmds)

ClientArgs == \E cmd \in ArgClientCmds : ClientSend(cmd)

NextArgs == ClientArgs \/ BeginCycle \/ DrainOne \/ Produce

SpecArgs == InitArgs /\ [][NextArgs]_vars

\* C11: whatever ControlAction it is handed, SetChannelGain for a channel past
\* the sources and TransportSeekBeat / TransportJumpBeat past the end of the cue
\* included, the realtime callback completes its cycle and never aborts.
C11_NeverAborts == ~panicked

\* A command whose argument is out of range has been taken from the channel.
C11_Witness ==
    \/ hist.cmd.op = "SetChannelGain" /\ hist.cmd.a >= NumSources
    \/ /\ hist.cmd.op \in {"TransportSeekBeat", "TransportJumpBeat"}
       /\ hist.cmd.a > Len(ap.cue.beats)

\* ------------------------------------------------------ the SMPTE word

\* The timecodes the word is generated for: every frame of the rate, and the
\* digits of the hours, minutes and seconds at their ends and in between.
SmpteRates == {24, 25, 30}
SmpteHours == {0, 7, 10, 19, 23}
SmpteMinutes == {0, 8, 35, 59}
SmpteSeconds == {0, 9, 30, 59}

\* A timecode source constructed for the rate and standing at a valid timecode.
InitSmpte ==
    \E sh \in Shows, n \in FrameSizes, t \in StartTimes, rate \in SmpteRates :
        \E h \in SmpteHours, m \in SmpteMinutes, s \in SmpteSeconds, f \in 0 .. (rate - 1) :
            ConstructedWith(sh, n, t, 0,
                [NewTimecodeSource(rate) EXCEPT
                    !.ltc = TimecodeInstant(h, m, s, f, 0, rate)])

\* generate_smpte_frame_bits is called for the timecode the source stands at.
GenerateFrameBits ==
    /\ tc.next_frame_bits = {}
    /\ tc' = [tc EXCEPT !.next_frame_bits = generate_smpte_frame_bits(tc)]
    /\ UNCHANGED <<net, probe, show, ap, met, pb, gain, ctx, clips, cmd_q, emitted, pc, jack_time,
                   frame_size, cycles, panicked, main, fired, hist>>

NextSmpte == GenerateFrameBits

SpecSmpte == InitSmpte /\ [][NextSmpte]_vars

\* C12: for every valid timecode and every frame rate of 24, 25 and 30, the
\* word generate_smpte_frame_bits produces has an even number of set bits; the
\* correction bit is bit 59 at 25 fps (bit 27 stays clear there) and bit 27 at
\* the other rates (bit 59 stays clear there).
C12_EvenParity ==
    tc.next_frame_bits # {} =>
        /\ Cardinality(tc.next_frame_bits) % 2 = 0
        /\ tc.next_frame_bits \subseteq 0 .. 79
        /\ tc.frame_rate = 25 => 27 \notin tc.next_frame_bits
        /\ tc.frame_rate # 25 => 59 \notin tc.next_frame_bits

\* A word generated at 25 fps whose correction bit 59 is set.
C12_Witness ==
    /\ tc.frame_rate = 25
    /\ 59 \in tc.next_frame_bits
    /\ Cardinality(tc.next_frame_bits \ {59}) % 2 = 1

\* ------------------------------------------------- the timecode advanced

AdvanceSizes == {500, 640, 800, 960, 1000, 1024, 1600, 1920, 2000, 2048}

\* The timecodes the source starts from: the first frame, and the last frame
\* of a second, of a minute and of the day for the rate.
AdvanceStarts(rate) ==
    {TimecodeInstant(0, 0, 0, 0, 0, rate), TimecodeInstant(0, 0, 59, rate - 1, 0, rate),
     TimecodeInstant(23, 59, 59, rate - 1, 0, rate), TimecodeInstant(0, 0, 0, 3, 1000, rate)}

\* A running timecode source right after a cycle: last_cycle_frame is the
\* timecode it stands at.
InitAdvance ==
    \E sh \in Shows, n \in FrameSizes, t \in StartTimes, rate \in SmpteRates :
        \E start \in AdvanceStarts(rate) :
            ConstructedWith(sh, n, t, 0,
                [NewTimecodeSource(rate) EXCEPT
                    !.running = TRUE, !.ltc = start, !.last_cycle_frame = start])

\* advance_by_samples is called with n samples at the sample rate of the driver.
Advance(n) ==
    /\ hist.samples + n <= MaxSamples
    /\ tc' = advance_by_samples(tc, n, SampleRate)
    /\ hist' = [hist EXCEPT !.samples = @ + n]
    /\ UNCHANGED <<net, probe, show, ap, met, pb, gain, ctx, clips, cmd_q, emitted, pc, jack_time,
                   frame_size, cycles, panicked, main, fired>>

NextAdvance == \E n \in AdvanceSizes : Advance(n)

SpecAdvance == InitAdvance /\ [][NextAdvance]_vars

\* The samples of one frame at the source's rate.
SamplesPerFrame == SampleRate \div tc.frame_rate

\* C13: when the sample counts of the advance_by_samples calls sum to exactly
\* k frames' worth of samples, the timecode stands exactly k frames after the
\* one it started from, frame_progress back at its start value.
C13_ExactFrames ==
    hist.samples % SamplesPerFrame = 0 =>
        tc.ltc = AddFrames(tc.last_cycle_frame, hist.samples \div SamplesPerFrame)

\* Two advances of 960 samples at 25 fps from 00:00:00:00 give s = 0, f = 1.
C13_Witness ==
    /\ tc.frame_rate = 25
    /\ hist.samples = 1920
    /\ tc.last_cycle_frame = TimecodeInstant(0, 0, 0, 0, 0, 25)
    /\ tc.ltc = TimecodeInstant(0, 0, 0, 1, 0, 25)

\* ---------------------------------------------------------- the post-fire pass

\* The events handed out with event_occured in the last realtime step.
PostFired == {fired[i].event : i \in {j \in 1 .. Len(fired) : ~fired[j].pre}}

\* C20: whenever the beat index changes during the buffer production of a
\* cycle, event_occured for the events at the new beat index is delivered
\* within that cycle (by the step that produces the buffers).
C20_PostFireInCycle ==
    [][(Produces /\ met'.beat_idx # met.beat_idx) =>
          \A i \in 1 .. Len(EventsAt(ap'.cue, met'.beat_idx)) :
              EventsAt(ap'.cue, met'.beat_idx)[i] \in PostFired']_vars

\* event_occured has been delivered by the handling of a command: the drain
\* of the cycle after the one whose buffers moved the beat index.
C20_Witness ==
    /\ pc = "drain"
    /\ hist.cmd # NoCmd
    /\ PostFired # {}

\* ------------------------------------------------------ the clips of a cue

MaxBeats == 3

\* What a beat of the cues counted may hold: nothing, a clip started on one of
\* four channels, two clips started on channel 1, a clip on channel 1 and one
\* on channel 2, a clip stopped, a jump.
BeatEvents(loc) ==
    {<<>>, <<PlaybackStopEvent(loc, 1)>>, <<JumpEvent(loc, 0, "None", "None", "None")>>,
     <<PlaybackEvent(loc, 1, 0, 0), PlaybackEvent(loc, 1, 1, 0)>>,
     <<PlaybackEvent(loc, 1, 0, 0), PlaybackEvent(loc, 2, 0, 0)>>}
    \cup {<<PlaybackEvent(loc, ch, 0, 0)>> : ch \in 0 .. 3}

\* The cues of n beats of 1000 us, every beat with one of BeatEvents.
RECURSIVE ClipCues(_)
ClipCues(n) ==
    IF n = 0 THEN {EmptyCue}
    ELSE {MkCue(Append(c.beats, 1000), c.events \o ev) :
              c \in ClipCues(n - 1), ev \in BeatEvents(n - 1)}

ClipHandlers == {2, 3}
ClipChannels == 0 .. 4

\* A PlaybackHandler of nc channels is about to count the clips of a cue.
InitClips ==
    /\ Idle
    /\ tc = NewTimecodeSource(25)
    /\ net = NewNet
    /\ \E nc \in ClipHandlers, ch \in ClipChannels, n \in 0 .. MaxBeats :
         \E cue \in ClipCues(n) :
            probe = [fn |-> "num_channel_clips_in_cue", num_channels |-> nc,
                     cue |-> cue, channel |-> ch, result |-> -1]

CountClips ==
    /\ probe.fn = "num_channel_clips_in_cue"
    /\ probe.result = -1
    /\ probe' = [probe EXCEPT
                    !.result = num_channel_clips_in_cue(probe.num_channels, probe.cue,
                                                        probe.channel)]
    /\ UNCHANGED <<net, show, ap, met, tc, pb, gain, ctx, clips, cmd_q, emitted, pc,
                   jack_time, frame_size, cycles, panicked, main, fired, hist>>

NextClips == CountClips

SpecClips == InitClips /\ [][NextClips]_vars

\* The PlaybackStart events of the channel in the cue counted.
StartsOnChannel ==
    {j \in 1 .. Len(probe.cue.events) :
        /\ probe.cue.events[j].kind = "PlaybackStart"
        /\ probe.cue.events[j].channel = probe.channel}

\* C14: num_channel_clips_in_cue(cue, ch) is the number of PlaybackStart events
\* on channel ch in the cue, whatever the length of the cue, when ch is a
\* channel of the handler, and 0 when ch is greater than the handler's number
\* of channels.
C14_ClipsCounted ==
    (probe.fn = "num_channel_clips_in_cue" /\ probe.result # -1) =>
        /\ probe.channel < probe.num_channels =>
               probe.result = Cardinality(StartsOnChannel)
        /\ probe.channel > probe.num_channels => probe.result = 0

\* Two clips counted on a channel of the handler in a cue that holds other
\* events as well.
C14_Witness ==
    /\ probe.fn = "num_channel_clips_in_cue"
    /\ probe.channel < probe.num_channels
    /\ probe.result = 2
    /\ Len(probe.cue.events) > 2

\* --------------------------------------------------------- the control loop

LoopCmds == 2

\* A cue index the shows do not have.
NoCue == 2

LoopClientCmds ==
    {Cmd("TransportStart", 0, 0), Cmd("LoadNextCue", 0, 0), Cmd("LoadCueByIndex", 1, 0),
     Cmd("LoadCueByIndex", NoCue, 0), Cmd("SetChannelGain", PbChannel, -6),
     Cmd("SetChannelGain", ConfigChannels, -6)}

InitLoop ==
    \E sh \in Shows, n \in FrameSizes, t \in StartTimes : Constructed(sh, n, t, LoopCmds)

ClientLoop == \E cmd \in LoopClientCmds : ClientSend(cmd)

NextLoop == ClientLoop \/ Shutdown \/ MainFollowUp \/ BeginCycle \/ DrainOne \/ Produce

SpecLoop == InitLoop /\ [][NextLoop]_vars

\* C18: the control loop has ended if and only if a Shutdown request has been
\* processed (and then ShutdownOccured has been sent); no other request ends it.
C18_OnlyShutdownEnds == main.alive = ~main.shutdown_occured

\* A Shutdown request has been processed: the loop has ended, ShutdownOccured sent.
C18_Witness == ~main.alive /\ main.shutdown_occured

\* ------------------------------------------------- the binary network handler

MaxSocket == 2      \* datagrams waiting on the socket
MaxDatagrams == 3   \* datagrams per behaviour

\* The readings of the wall clock (seconds): a subscriber can be 14 min 59 s,
\* 15 min or 20 min silent.
ClockReadings == {0, 1, 15 * 60, 20 * 60}

NotificationTypes == {"NetworkChanged", "TransportChanged"}

\* What the clients can send when the clock reads now: "a" takes every
\* notification, "b" the transport only and may report a last contact of 0.
Datagrams(now) ==
    {Datagram("a", "Undecodable", NoInfo),
     Datagram("a", "Subscribe", SubscriberInfo("a", NotificationTypes, now)),
     Datagram("a", "Unsubscribe", SubscriberInfo("a", {}, 0)),
     Datagram("b", "Undecodable", NoInfo),
     Datagram("b", "Ping", NoInfo),
     Datagram("b", "Subscribe", SubscriberInfo("b", {"TransportChanged"}, 0)),
     Datagram("b", "Subscribe", SubscriberInfo("b", {"TransportChanged"}, now))}

\* What the last call returned and sent is gone when the next thing happens.
Consumed(nt) == [nt EXCEPT !.inputs = <<>>, !.sent = <<>>, !.op = "-", !.arg = "-"]

audio_side ==
    <<show, ap, met, tc, pb, gain, ctx, clips, cmd_q, emitted, pc, jack_time, frame_size,
      cycles, panicked, main, fired, hist>>

InitNet == Idle /\ tc = NewTimecodeSource(25) /\ net = NewNet /\ probe = NoProbe

\* A datagram reaches the socket.
Arrive ==
    /\ net.alive
    /\ Len(net.socket) < MaxSocket
    /\ net.arrived < MaxDatagrams
    /\ \E d \in Datagrams(net.now) :
            net' = [Consumed(net) EXCEPT !.socket = Append(@, d), !.arrived = @ + 1]
    /\ probe' = NoProbe
    /\ UNCHANGED audio_side

\* Time passes.
Tick ==
    /\ net.alive
    /\ \E now \in ClockReadings :
            /\ now > net.now
            /\ net' = [Consumed(net) EXCEPT !.now = now]
    /\ probe' = NoProbe
    /\ UNCHANGED audio_side

\* The control loop collects the requests.
NetGetInputs ==
    /\ net.alive
    /\ net' = get_all_inputs(net)
    /\ probe' = [fn |-> "get_inputs", before |-> net]
    /\ UNCHANGED audio_side

\* The control loop sends a notification.
NetSend ==
    /\ net.alive
    /\ \E type \in NotificationTypes :
            net' = NetNotify([Consumed(net) EXCEPT !.op = "notify", !.arg = type], type)
    /\ probe' = [fn |-> "notify", before |-> net]
    /\ UNCHANGED audio_side

NextNet == Arrive \/ Tick \/ NetGetInputs \/ NetSend

SpecNet == InitNet /\ [][NextNet]_vars

\* The subscribers a notify call found, by how long they had been silent.
Silent(sub) == probe.before.now - sub.last_contact >= 15 * 60

FoundSubscribers == {probe.before.subscribers[i] : i \in 1 .. Len(probe.before.subscribers)}

KeptSubscribers == {net.subscribers[i] : i \in 1 .. Len(net.subscribers)}

SentTo == {net.sent[i].to : i \in 1 .. Len(net.sent)}

\* C15: when a notification is sent, every subscriber whose last contact lies
\* 15 minutes or more back is removed from the list and gets no datagram; the
\* subscribers heard of more recently stay, and get the datagram if they take
\* notifications of its type.
C15_SilentSubscribersDropped ==
    probe.fn = "notify" =>
        \A sub \in FoundSubscribers :
            /\ Silent(sub) => sub \notin KeptSubscribers /\ sub.address \notin SentTo
            /\ ~Silent(sub) =>
                    /\ sub \in KeptSubscribers
                    /\ net.arg \in sub.message_kinds => sub.address \in SentTo

\* A notification found one subscriber silent for 15 minutes and one heard of
\* 14 min 59 s ago; the first is gone, the second has been served.
C15_Witness ==
    /\ probe.fn = "notify"
    /\ \E old, new \in FoundSubscribers :
            /\ probe.before.now - old.last_contact = 15 * 60
            /\ net.arg \in old.message_kinds
            /\ probe.before.now - new.last_contact = 15 * 60 - 1
            /\ new.address \in SentTo
            /\ KeptSubscribers = {new}

\* The datagrams a get_inputs call found that decode.
Decodable(socket) == SelectSeq(socket, LAMBDA d : d.kind # "Undecodable")

\* C16: a datagram that cannot be decoded is discarded: a get_inputs call that
\* finds one goes on, and returns the requests, leaves the subscribers and leaves
\* the input queue as it would have without that datagram.
C16_UndecodableDiscarded ==
    (probe.fn = "get_inputs" /\ Decodable(probe.before.socket) # probe.before.socket) =>
        /\ net.alive
        /\ net.socket = <<>>
        /\ \E without \in {get_all_inputs([probe.before EXCEPT !.socket = Decodable(@)])} :
                /\ net.inputs = without.inputs
                /\ net.input_queue = without.input_queue
                /\ Len(net.subscribers) = Len(without.subscribers)
                /\ \A i \in 1 .. Len(net.subscribers) :
                        /\ net.subscribers[i].address = without.subscribers[i].address
                        /\ net.subscribers[i].message_kinds =
                               without.subscribers[i].message_kinds

\* A get_inputs call found an undecodable datagram followed by a Subscribe.
C16_Witness ==
    /\ probe.fn = "get_inputs"
    /\ Len(probe.before.socket) = 2
    /\ probe.before.socket[1].kind = "Undecodable"
    /\ probe.before.socket[2].kind = "Subscribe"

\* ------------------------------------------------------- communication/osc.rs

\* Strings are sequences of characters.
Digits == <<"0", "1", "2", "3", "4", "5", "6", "7", "8", "9">>

IsDigit(c) == \E i \in 1 .. 10 : Digits[i] = c

DigitValue(c) == CHOOSE v \in 0 .. 9 : Digits[v + 1] = c

\* format!("{n}")
RECURSIVE Decimal(_)
Decimal(n) == IF n < 10 THEN <<Digits[n + 1]>> ELSE Append(Decimal(n \div 10), Digits[(n % 10) + 1])

\* The first position of c in s, or 0.
IndexOf(s, c) ==
    IF \E i \in 1 .. Len(s) : s[i] = c
    THEN CHOOSE i \in 1 .. Len(s) : s[i] = c /\ \A j \in 1 .. i - 1 : s[j] # c
    ELSE 0

AfterIndex(s, i) == SubSeq(s, i + 1, Len(s))

\* OSC 1.0 character class [...]: listed characters, ranges a-b, ! negates.
InClass(class, c) ==
    \E items \in {IF class # <<>> /\ class[1] = "!" THEN Tail(class) ELSE class} :
        (class # <<>> /\ class[1] = "!") #
            (\/ \E i \in 1 .. Len(items) : items[i] = c /\ c # "-"
             \/ \E i \in 2 .. Len(items) - 1 :
                    /\ items[i] = "-"
                    /\ IsDigit(items[i - 1]) /\ IsDigit(items[i + 1]) /\ IsDigit(c)
                    /\ DigitValue(items[i - 1]) <= DigitValue(c)
                    /\ DigitValue(c) <= DigitValue(items[i + 1]))

\* The alternatives of {a,b,...}
RECURSIVE Alternatives(_)
Alternatives(list) ==
    IF IndexOf(list, ",") = 0 THEN {list}
    ELSE {SubSeq(list, 1, IndexOf(list, ",") - 1)}
            \cup Alternatives(AfterIndex(list, IndexOf(list, ",")))

\* Matcher::new: the pattern is an address whose brackets and braces close and
\* whose parts are not empty.
RECURSIVE WellFormed(_)
WellFormed(p) ==
    IF p = <<>> THEN TRUE
    ELSE CASE Head(p) = "[" -> IndexOf(p, "]") > 2 /\ WellFormed(AfterIndex(p, IndexOf(p, "]")))
           [] Head(p) = "{" -> IndexOf(p, "}") > 2 /\ WellFormed(AfterIndex(p, IndexOf(p, "}")))
           [] Head(p) \in {"]", "}", ","} -> FALSE
           [] Head(p) = "/" -> Len(p) > 1 /\ p[2] # "/" /\ WellFormed(Tail(p))
           [] OTHER -> WellFormed(Tail(p))

MatcherNew(p) == p # <<>> /\ Head(p) = "/" /\ WellFormed(p)

\* Matcher::match_address: ? is one character, * any run of characters, [...] a
\* class, {a,b} a choice; none of them reaches across a "/".
RECURSIVE Glob(_, _)
Glob(p, s) ==
    IF p = <<>> THEN s = <<>>
    ELSE CASE Head(p) = "?" -> s # <<>> /\ Head(s) # "/" /\ Glob(Tail(p), Tail(s))
           [] Head(p) = "*" ->
                \/ Glob(Tail(p), s)
                \/ s # <<>> /\ Head(s) # "/" /\ Glob(p, Tail(s))
           [] Head(p) = "[" ->
                /\ s # <<>> /\ Head(s) # "/"
                /\ InClass(SubSeq(p, 2, IndexOf(p, "]") - 1), Head(s))
                /\ Glob(AfterIndex(p, IndexOf(p, "]")), Tail(s))
           [] Head(p) = "{" ->
                \E alt \in Alternatives(SubSeq(p, 2, IndexOf(p, "}") - 1)) :
                    Glob(alt \o AfterIndex(p, IndexOf(p, "}")), s)
           [] OTHER -> s # <<>> /\ Head(s) = Head(p) /\ Glob(Tail(p), Tail(s))

Slash == <<"/">>
ControlWord == <<"c", "o", "n", "t", "r", "o", "l">>
TransportWord == <<"t", "r", "a", "n", "s", "p", "o", "r", "t">>
CueWord == <<"c", "u", "e">>
EditWord == <<"e", "d", "i", "t">>
ChannelWord == <<"c", "h", "a", "n", "n", "e", "l">>
ConfigWord == <<"c", "o", "n", "f", "i", "g">>
SubscribeWord == <<"s", "u", "b", "s", "c", "r", "i", "b", "e">>
StartWord == <<"s", "t", "a", "r", "t">>
StopWord == <<"s", "t", "o", "p">>
ZeroWord == <<"z", "e", "r", "o">>
SeekWord == <<"s", "e", "e", "k">>
JumpWord == <<"j", "u", "m", "p">>
LoadWord == <<"l", "o", "a", "d">>
GainWord == <<"g", "a", "i", "n">>
MuteWord == <<"m", "u", "t", "e">>
RouteWord == <<"r", "o", "u", "t", "e">>

\* OscType; a Bool carries 1 for true and 0 for false.
OscArg(type, v) == [type |-> type, v |-> v]

OscNil == OscArg("Nil", 0)

OscMessage(addr, args) == [kind |-> "Message", addr |-> addr, args |-> args]

\* A bundle of messages whose time tag has come (due) or not.
OscBundle(due, content) == [kind |-> "Bundle", due |-> due, content |-> content]

Ok(cmds) == [ok |-> TRUE, cmds |-> cmds, err |-> "-"]

Err(err) == [ok |-> FALSE, cmds |-> <<>>, err |-> err]

RoutingChangeRequest(chidx, out_idx, patch) ==
    [op |-> "RoutingChangeRequest", a |-> chidx, b |-> out_idx, patch |-> patch]

OscChannels == 32
OscOutputs == 64

\* OscNetHandler::new
NewOsc ==
    [matcher |-> Slash \o <<"n", "u", "l", "l">>, subscribers |-> <<>>, bundle_pool |-> <<>>,
     address |-> <<>>, address_space |-> <<>>, args |-> <<>>, last_recv_src |-> "0.0.0.0"]

\* OscNetHandler::step_address: the first word of the address is split off.
step_address(h) ==
    IF IndexOf(h.address, "/") = 0 \/ IndexOf(h.address, "/") = Len(h.address)
    THEN [h EXCEPT !.address_space = h.address]
    ELSE [h EXCEPT !.address_space = SubSeq(h.address, 1, IndexOf(h.address, "/") - 1),
                   !.address = AfterIndex(h.address, IndexOf(h.address, "/"))]

get_arg(h, idx) == IF idx < Len(h.args) THEN h.args[idx + 1] ELSE OscNil

addreq(h, addr) == Glob(h.matcher, addr)

\* addr_edit_channel_, lines 296-302
GainRequests(h, chidx) ==
    IF addreq(h, Slash \o Decimal(chidx) \o Slash \o GainWord) /\ get_arg(h, 0).type = "Float"
    THEN <<Cmd("SetChannelGain", chidx, get_arg(h, 0).v)>> ELSE <<>>

\* addr_edit_channel_, lines 303-309
MuteRequests(h, chidx) ==
    IF addreq(h, Slash \o Decimal(chidx) \o Slash \o MuteWord) /\ get_arg(h, 0).type = "Bool"
    THEN <<Cmd("SetChannelMute", chidx, get_arg(h, 0).v)>> ELSE <<>>

\* addr_edit_channel_, lines 310-316: the outputs 0..63 whose route address
\* matches, in ascending order, ...
MatchingOutputs(h, chidx) ==
    SelectSeq([i \in 1 .. OscOutputs |-> i - 1],
              LAMBDA out_idx : addreq(h, Slash \o Decimal(chidx) \o Slash \o RouteWord
                                         \o Slash \o Decimal(out_idx)))

\* ... each give a routing request if the argument is a bool.
RouteRequests(h, chidx) ==
    IF get_arg(h, 0).type # "Bool" THEN <<>>
    ELSE [i \in 1 .. Len(MatchingOutputs(h, chidx)) |->
            RoutingChangeRequest(chidx, MatchingOutputs(h, chidx)[i], get_arg(h, 0).v)]

\* The loop of addr_edit_channel_ from chidx up to (not including) last.
RECURSIVE ChannelRequests(_, _, _)
ChannelRequests(h, chidx, last) ==
    IF chidx >= last THEN <<>>
    ELSE GainRequests(h, chidx) \o MuteRequests(h, chidx) \o RouteRequests(h, chidx)
         \o ChannelRequests(h, chidx + 1, last)

\* addr_edit_channel_ looking at the channels 0..9 only
addr_edit_channel_ten(h) ==
    IF ~MatcherNew(Slash \o h.address) THEN [h |-> h, r |-> Err("BadAddress")]
    ELSE [h |-> [h EXCEPT !.matcher = Slash \o h.address],
          r |-> Ok(ChannelRequests([h EXCEPT !.matcher = Slash \o h.address], 0, 10))]

\* OscNetHandler::addr_edit_channel_
addr_edit_channel_(h) ==
    IF ~MatcherNew(Slash \o h.address) THEN [h |-> h, r |-> Err("BadAddress")]
    ELSE [h |-> [h EXCEPT !.matcher = Slash \o h.address],
          r |-> Ok(ChannelRequests([h EXCEPT !.matcher = Slash \o h.address], 0,
                                   OscChannels))]

\* OscNetHandler::addr_control_transport_ after its step_address
addr_control_transport_(h) ==
    CASE h.address_space = StartWord -> Ok(<<Cmd("TransportStart", 0, 0)>>)
      [] h.address_space = StopWord -> Ok(<<Cmd("TransportStop", 0, 0)>>)
      [] h.address_space = ZeroWord -> Ok(<<Cmd("TransportZero", 0, 0)>>)
      [] h.address_space = SeekWord ->
            IF get_arg(h, 0).type = "Int"
            THEN Ok(<<Cmd("TransportSeekBeat", get_arg(h, 0).v, 0)>>) ELSE Err("BadArg")
      [] h.address_space = JumpWord ->
            IF get_arg(h, 0).type = "Int"
            THEN Ok(<<Cmd("TransportJumpBeat", get_arg(h, 0).v, 0)>>) ELSE Err("BadArg")
      [] OTHER -> Err("Unimplemented")

\* OscNetHandler::addr_control_cue_ after its step_address
addr_control_cue_(h) ==
    CASE h.address_space = <<"+">> -> Ok(<<Cmd("LoadNextCue", 0, 0)>>)
      [] h.address_space = <<"-">> -> Ok(<<Cmd("LoadPreviousCue", 0, 0)>>)
      [] h.address_space = LoadWord ->
            IF get_arg(h, 0).type = "Int"
            THEN Ok(<<Cmd("LoadCueByIndex", get_arg(h, 0).v, 0)>>) ELSE Err("BadArg")
      [] OTHER -> Err("Unimplemented")

\* handle_message, lines 178-182 and 183-187: the second word is looked at.
ControlSpace(h) ==
    CASE h.address_space = TransportWord ->
            [h |-> step_address(h), r |-> addr_control_transport_(step_address(h))]
      [] h.address_space = CueWord ->
            [h |-> step_address(h), r |-> addr_control_cue_(step_address(h))]
      [] OTHER -> [h |-> h, r |-> Err("Unimplemented")]

EditSpace(h) ==
    CASE h.address_space = ChannelWord -> addr_edit_channel_(h)
      [] h.address_space = ConfigWord -> [h |-> h, r |-> Err("Unimplemented")]
      [] OTHER -> [h |-> h, r |-> Err("Unimplemented")]

\* handle_message, lines 177-203: the first word is looked at.
FirstSpace(h) ==
    CASE h.address_space = ControlWord -> ControlSpace(step_address(h))
      [] h.address_space = EditWord -> EditSpace(step_address(h))
      [] h.address_space = SubscribeWord ->
            [h |-> [h EXCEPT !.subscribers =
                        Append(@, [ip |-> h.last_recv_src,
                                   port |-> IF get_arg(h, 0).type = "Int"
                                            THEN get_arg(h, 0).v % 65536 ELSE 0])],
             r |-> Ok(<<>>)]
      [] OTHER -> [h |-> h, r |-> Err("Unimplemented")]

\* OscNetHandler::handle_message
handle_message(h, message) ==
    IF message.addr = <<>> \/ Head(message.addr) # "/"
    THEN [h |-> h, r |-> Err("BadAddress")]
    ELSE FirstSpace(step_address([h EXCEPT !.args = message.args,
                                           !.address = Tail(message.addr)]))

\* The loop of handle_bundle: the first error ends it and is the result.
RECURSIVE BundleMessages(_, _, _)
BundleMessages(h, content, cmds) ==
    IF content = <<>> THEN [h |-> h, r |-> Ok(cmds)]
    ELSE IF ~handle_message(h, Head(content)).r.ok THEN handle_message(h, Head(content))
    ELSE BundleMessages(handle_message(h, Head(content)).h, Tail(content),
                        cmds \o handle_message(h, Head(content)).r.cmds)

\* OscNetHandler::handle_bundle
handle_bundle(h, bundle) ==
    IF bundle.due THEN BundleMessages(h, bundle.content, <<>>)
    ELSE [h |-> [h EXCEPT !.bundle_pool = Append(@, bundle)], r |-> Ok(<<>>)]

\* OscNetHandler::handle_packet
handle_packet(h, packet) ==
    IF packet.kind = "Bundle" THEN handle_bundle(h, packet) ELSE handle_message(h, packet)

\* ------------------------------------------------------------ OSC requests

\* The pieces the channel patterns are made of.
PatternPieces ==
    {<<"1">>, <<"3">>, <<"?">>, <<"*">>, <<"[", "0", "-", "3", "]">>, <<"[", "!", "1", "]">>,
     <<"{", "1", ",", "2", "}">>, <<"{", "1", ",", "2", "5", "}">>,
     <<"{", "3", ",", "3", "1", ",", "3", "2", "}">>}

\* Patterns of one or two pieces, and two that are no patterns.
ChannelPatterns ==
    PatternPieces
        \cup {a \o b :
                a \in {<<"1">>, <<"?">>, <<"*">>, <<"[", "0", "-", "3", "]">>,
                       <<"{", "1", ",", "2", "}">>},
                b \in {<<"1">>, <<"?">>, <<"*">>, <<"[", "!", "1", "]">>,
                       <<"{", "1", ",", "2", "5", "}">>}}
        \cup {<<"{", "1", ",", "2">>, <<>>}

OscArgLists == {<<OscArg("Float", g)>> : g \in Gains} \cup {<<OscArg("Bool", 1)>>, <<>>}

EditChannelPrefix == Slash \o EditWord \o Slash \o ChannelWord \o Slash

ControlPrefix == Slash \o ControlWord \o Slash

\* /edit/channel/<pattern>/<leaf>
EditChannelMessages ==
    {OscMessage(EditChannelPrefix \o pattern \o Slash \o GainWord, args) :
        pattern \in ChannelPatterns, args \in OscArgLists}
    \cup {OscMessage(EditChannelPrefix \o pattern \o Slash \o MuteWord, args) :
        pattern \in PatternPieces, args \in OscArgLists}

OtherMessages ==
    {OscMessage(addr, args) :
        addr \in {ControlPrefix \o TransportWord \o Slash \o StartWord,
                  ControlPrefix \o TransportWord \o Slash \o StopWord,
                  ControlPrefix \o TransportWord \o Slash \o ZeroWord,
                  ControlPrefix \o TransportWord \o Slash \o SeekWord,
                  ControlPrefix \o TransportWord \o Slash \o JumpWord,
                  ControlPrefix \o TransportWord \o Slash \o LoadWord,
                  ControlPrefix \o CueWord \o Slash \o <<"+">>,
                  ControlPrefix \o CueWord \o Slash \o <<"-">>,
                  ControlPrefix \o CueWord \o Slash \o LoadWord,
                  ControlPrefix \o CueWord \o Slash \o StopWord,
                  ControlPrefix \o GainWord,
                  Slash \o EditWord \o Slash \o ConfigWord \o Slash \o GainWord,
                  Slash \o EditWord \o Slash \o GainWord,
                  Slash \o SubscribeWord,
                  Slash \o GainWord,
                  EditChannelPrefix \o <<"1">> \o Slash \o RouteWord \o Slash
                        \o <<"{", "3", ",", "6", "3", ",", "6", "4", "}">>,
                  Slash, EditWord, <<>>},
        args \in {<<OscArg("Int", 5)>>, <<OscArg("Bool", 1)>>, <<>>}}

OscBundles ==
    {OscBundle(due, <<first, second>>) :
        due \in BOOLEAN,
        first \in {OscMessage(ControlPrefix \o TransportWord \o Slash \o StartWord, <<>>),
                   OscMessage(GainWord, <<>>)},
        second \in {OscMessage(EditChannelPrefix \o <<"?">> \o Slash \o MuteWord,
                               <<OscArg("Bool", 1)>>),
                    OscMessage(ControlPrefix \o MuteWord, <<>>)}}

OscPackets == EditChannelMessages \cup OtherMessages \cup OscBundles

NoResult == [ok |-> FALSE, cmds |-> <<>>, err |-> "pending"]

InitOsc ==
    /\ Idle /\ tc = NewTimecodeSource(25) /\ net = NewNet
    /\ \E packet \in OscPackets :
            probe = [fn |-> "handle_packet", handler |-> NewOsc, packet |-> packet,
                     r |-> NoResult]

HandlePacket ==
    /\ probe.fn = "handle_packet"
    /\ probe.r = NoResult
    /\ \E done \in {handle_packet(probe.handler, probe.packet)} :
            probe' = [probe EXCEPT !.handler = done.h, !.r = done.r]
    /\ UNCHANGED <<net, audio_side>>

NextOsc == HandlePacket

SpecOsc == InitOsc /\ [][NextOsc]_vars

\* The pattern of a handled message /edit/channel/<pattern>/gain
GainPattern ==
    SubSeq(probe.packet.addr, Len(EditChannelPrefix) + 1,
           Len(probe.packet.addr) - Len(Slash \o GainWord))

IsGainMessage ==
    /\ probe.fn = "handle_packet"
    /\ probe.r # NoResult
    /\ probe.packet.kind = "Message"
    /\ \E pattern \in ChannelPatterns :
            /\ probe.packet.addr = EditChannelPrefix \o pattern \o Slash \o GainWord
            /\ MatcherNew(Slash \o pattern)
    /\ Len(probe.packet.args) = 1
    /\ probe.packet.args[1].type = "Float"

\* SetChannelGain(ch, g) for the channels from ch on whose number the pattern
\* matches, in ascending order.
RECURSIVE GainsFrom(_, _, _)
GainsFrom(ch, pattern, g) ==
    IF ch >= 32 THEN <<>>
    ELSE (IF Glob(pattern, Decimal(ch)) THEN <<Cmd("SetChannelGain", ch, g)>> ELSE <<>>)
         \o GainsFrom(ch + 1, pattern, g)

\* C17: for /edit/channel/<pattern>/gain with one float argument g the result is
\* one SetChannelGain(ch, g) for every channel 0..31 whose number matches the
\* pattern, in ascending order, and nothing else: {1,2} gives the channels 1
\* and 2, ? the channels 0..9.
C17_GainPerMatchingChannel ==
    IsGainMessage =>
        /\ probe.r.ok
        /\ probe.r.cmds = GainsFrom(0, GainPattern, probe.packet.args[1].v)
        /\ GainPattern = <<"{", "1", ",", "2", "}">> =>
                probe.r.cmds = [i \in 1 .. 2 |->
                                    Cmd("SetChannelGain", i, probe.packet.args[1].v)]
        /\ GainPattern = <<"?">> =>
                probe.r.cmds = [i \in 1 .. 10 |->
                                    Cmd("SetChannelGain", i - 1, probe.packet.args[1].v)]

\* /edit/channel/{1,2}?/gain has been handled: twenty requests, channels 10..29.
C17_Witness ==
    /\ IsGainMessage
    /\ GainPattern = <<"{", "1", ",", "2", "}", "?">>
    /\ Len(probe.r.cmds) = 20
    /\ probe.r.cmds[1].a = 10
    /\ probe.r.cmds[20].a = 29

\* ------------------------------------------------- the LTC signal, measured

MaxLtcCycles == 120     \* cycles per behaviour of SpecLtc

LtcFrameSize == 256

LtcSampleRate == 48000

\* The largest sample the low pass gives: a flat stretch, 1 + 2 + 1 thirds of
\* the volume.
PeakAmplitude == 1 + 2 + 1

\* tests::rise_fall_time: two samples are approximately the same if they differ
\* by less than 5 % of the peak amplitude.
ApproxSame(s, i, j) ==
    20 * (IF s[i] >= s[j] THEN s[i] - s[j] ELSE s[j] - s[i]) < PeakAmplitude

NotSame(s, i, j) ==
    20 * (IF s[i] >= s[j] THEN s[i] - s[j] ELSE s[j] - s[i]) > PeakAmplitude

\* The left side of a crossing: flat to the left, not flat to the right.
IsLeft(s, left) == ApproxSame(s, left, left - 1) /\ NotSame(s, left, left + 1)

\* The right side of a crossing: flat to the right, not flat to the left.
IsRight(s, right) == ApproxSame(s, right, right + 1) /\ NotSame(s, right, right - 1)

\* The first right side within ten samples of left, or 0.
RightOf(s, left) ==
    IF \E right \in left .. left + 9 : IsRight(s, right)
    THEN CHOOSE right \in left .. left + 9 :
            IsRight(s, right) /\ \A r \in left .. right - 1 : ~IsRight(s, r)
    ELSE 0

\* The left sides in from .. to that have a right side, in ascending order.
Crossings(s, from, to) ==
    SelectSeq([i \in 1 .. to - from + 1 |-> from + i - 1],
              LAMBDA left : IsLeft(s, left) /\ RightOf(s, left) # 0)

\* Their crossing times as 1000 * samples (48 times the microseconds at 48 kHz).
TimesOf(s, lefts) == [i \in 1 .. Len(lefts) |-> 1000 * (RightOf(s, lefts[i]) - lefts[i])]

CrossingTimes(s, from, to) == TimesOf(s, Crossings(s, from, to))

RECURSIVE TimesSum(_)
TimesSum(s) == IF s = <<>> THEN 0 ELSE Head(s) + TimesSum(Tail(s))

RECURSIVE TimesMin(_, _)
TimesMin(s, least) ==
    IF s = <<>> THEN least ELSE TimesMin(Tail(s), IF Head(s) < least THEN Head(s) ELSE least)

RECURSIVE TimesMax(_, _)
TimesMax(s, most) ==
    IF s = <<>> THEN most ELSE TimesMax(Tail(s), IF Head(s) > most THEN Head(s) ELSE most)

\* tests::rise_fall_time before the first sample: min_time = 10000000.0 us.
NoMeasure ==
    [fn |-> "rise_fall_time", tail |-> <<>>, cycles |-> 0, min_time |-> 10000000 * 48,
     max_time |-> 0, avg_sum |-> 0, avg_cnt |-> 0]

\* The measurement carried on over the samples of one more cycle: the lefts
\* whose ten samples to the right are there are looked at, the last 12 samples
\* are kept for the next cycle.
Measured(m, times, s) ==
    [m EXCEPT !.tail = IF Len(s) > 12 THEN SubSeq(s, Len(s) - 11, Len(s)) ELSE s,
              !.cycles = @ + 1,
              !.min_time = TimesMin(times, @),
              !.max_time = TimesMax(times, @),
              !.avg_sum = @ + TimesSum(times),
              !.avg_cnt = @ + Len(times)]

rise_fall_time(m, out) ==
    Measured(m, CrossingTimes(m.tail \o out, 2, Len(m.tail \o out) - 11), m.tail \o out)

\* tests::smpte_ltc_spec: a source of 25 frames per second, running.
InitLtc ==
    /\ Idle /\ net = NewNet
    /\ tc = [NewTimecodeSource(25) EXCEPT !.running = TRUE]
    /\ probe = NoMeasure

\* One cycle of 256 samples at 48 kHz, appended to the measured signal.
LtcCycle ==
    /\ probe.fn = "rise_fall_time"
    /\ probe.cycles < MaxLtcCycles
    /\ \E after \in {TcFrame(tc, LtcFrameSize, LtcSampleRate)} :
            /\ tc' = after
            /\ probe' = rise_fall_time(probe, FrameOutput(after, LtcFrameSize, LtcSampleRate))
    /\ UNCHANGED <<net, show, ap, met, pb, gain, ctx, clips, cmd_q, emitted, pc, jack_time,
                   frame_size, cycles, panicked, main, fired, hist>>

NextLtc == LtcCycle

SpecLtc == InitLtc /\ [][NextLtc]_vars

\* C19: every rise/fall time of the LTC signal at 48 kHz and 25 fps, made of
\* cycles of 256 samples, lies within 40 to 65 microseconds: the minimum, the
\* average and the maximum over all transitions found so far, those at the
\* frame joins included.
C19_RiseFallTime ==
    (probe.fn = "rise_fall_time" /\ probe.avg_cnt > 0) =>
        /\ 40 * 48 <= probe.min_time /\ probe.min_time <= 65 * 48
        /\ 40 * 48 <= probe.max_time /\ probe.max_time <= 65 * 48
        /\ 40 * 48 * probe.avg_cnt <= probe.avg_sum
        /\ probe.avg_sum <= 65 * 48 * probe.avg_cnt

\* The signal has run over a frame join: both halves of the buffer hold a
\* rendered frame, and transitions of 62.5 us have been measured.
C19_Witness ==
    /\ probe.fn = "rise_fall_time"
    /\ tc.frame_bits # {} /\ tc.next_frame_bits # {}
    /\ probe.max_time = 3000
    /\ probe.avg_cnt > 100

\* ----------------------------------------------------------- the pre-fire pass

\* The events handed out with event_will_occur in the last realtime step.
PreFired == {fired[i].event : i \in {j \in 1 .. Len(fired) : fired[j].pre}}

\* The buffers of this step take the metronome over a beat boundary.
CrossesBoundary == Produces /\ met'.last_beat_time # met.last_beat_time

\* C21: the step that produces the buffers of a cycle delivers event_will_occur
\* for exactly the events of the beat its frame enters, and for none if its
\* frame crosses no beat boundary (as in every cycle of a stopped transport).
C21_PreFireOnCrossing ==
    [][Produces =>
          IF CrossesBoundary
          THEN \A e \in PreFired' \cup {EventsAt(ap'.cue, met'.beat_idx)[i] :
                                          i \in 1 .. Len(EventsAt(ap'.cue, met'.beat_idx))} :
                   Len(SelectSeq(fired', LAMBDA f : f.pre /\ f.event = e)) = 1
                   /\ e.location = met'.beat_idx
          ELSE PreFired' = {}]_vars

\* event_will_occur has been delivered by a cycle of a stopped transport.
C21_Witness ==
    /\ pc = "idle"
    /\ cycles > 0
    /\ ~ap.running
    /\ ~ctx.running
    /\ met.last_beat_time = 0
    /\ PreFired # {}

\* ------------------------------------------------------- the command channel

\* The commands put on the channel and not handled yet, oldest first.
Pending == [i \in 1 .. Len(hist.pending) |-> hist.pending[i].cmd]

\* C22: every command handled was the oldest command put on the channel and not
\* handled before, and the channel holds exactly the commands not handled yet,
\* in the order they were put there; a cycle produces its buffers only when
\* every command put on the channel before its drain began (and before the
\* drain found the channel empty) has been handled.
C22_HandledInOrder ==
    /\ [](hist.in_order /\ Pending = cmd_q)
    /\ [][Produces => hist.pending = <<>>]_vars

\* The control loop has put its commands on the channel, the cue has run out
\* and the processor has put its own there, and a later cycle has handled
\* them all.
C22_Witness ==
    /\ pc = "idle"
    /\ cycles >= 3
    /\ main.budget = 0
    /\ hist.ran_out >= 0
    /\ hist.in_order
    /\ hist.pending = <<>>
    /\ ~ap.running

\* --------------------------------------------------- the drain under a producer

MaxQueue == 2           \* commands the producer lets wait on the channel
DrainCycles == 2        \* realtime cycles per behaviour of SpecDrain

\* The commands the producer keeps sending: none the control loop follows up.
DrainCmds == {Cmd(op, 0, 0) : op \in {"DumpStatus", "TransportStart", "TransportStop"}}

\* The control loop forwards a request (main.rs, line 138), as often as
\* requests arrive.
KeepSending(cmd) ==
    /\ Running
    /\ main.pending = NoCmd
    /\ ~MainActsOn(cmd)
    /\ Len(cmd_q) < MaxQueue
    /\ cmd_q' = Append(cmd_q, cmd)
    /\ hist' = [hist EXCEPT !.pending = @ \o Sent(<<cmd>>, FALSE)]
    /\ UNCHANGED <<net, probe, show, ap, met, tc, pb, gain, ctx, clips, emitted, pc, jack_time,
                   frame_size, cycles, panicked, fired, main>>

InitDrain ==
    \E sh \in Shows, n \in FrameSizes, t \in StartTimes : Constructed(sh, n, t, 0)

Producer == \E cmd \in DrainCmds : KeepSending(cmd)

BeginCycleDrain == Begin(cycles < DrainCycles)

NextDrain == Producer \/ BeginCycleDrain \/ DrainOne \/ Produce

\* The callback, once called, runs: a turn of its drain loop is taken when
\* try_recv can yield a command.
SpecDrain == InitDrain /\ [][NextDrain]_vars /\ WF_vars(DrainOne)

\* C23: a cycle that has begun to drain the channel comes to the end of its
\* drain, whatever the producer sends meanwhile: try_recv finds the channel
\* empty (the one way out of the loop), after which the cycle goes on to
\* produce its buffers.
C23_DrainTerminates == (pc = "drain" /\ ~panicked) ~> (cmd_q = <<>> \/ panicked)

\* Two commands have been handled in this drain and the channel holds only
\* commands sent since the cycle began.
C23_Witness ==
    /\ pc = "drain"
    /\ hist.cmd # NoCmd
    /\ hist.prev # NoCmd
    /\ hist.pending # <<>>
    /\ \A i \in 1 .. Len(hist.pending) :
           hist.pending[i].cycle = cycles /\ ~hist.pending[i].own

\* ------------------------------------------- the processor's own commands

\* C24: a command the processor has put on the channel itself is handled in
\* the drain of the cycle after the one that issued it, never in the issuing
\* cycle.
C24_OwnCommandsNextCycle ==
    [][(/\ pc = "drain"
        /\ cmd_q # <<>>
        /\ hist.pending # <<>>
        /\ Handles(Head(cmd_q))
        /\ Head(hist.pending).own) =>
            Head(hist.pending).cycle = cycles - 1]_vars

\* With nothing sent by the control loop, the first cycle has handled
\* TransportStop and TransportZero: those load_cue issued in that cycle.
C24_Witness ==
    /\ pc = "drain"
    /\ cycles = 1
    /\ main.budget = MaxCmds
    /\ hist.prev = Cmd("TransportStop", 0, 0)
    /\ hist.cmd = Cmd("TransportZero", 0, 0)
    /\ ap.cue = show[1]

\* ------------------------------------------------ the end-of-cycle notification

\* C25: a cycle that comes to its end closes with a TransportData message if
\* and only if the transport is running or a seek or jump has been handled
\* since a cycle last closed with one; status_changed_flag is false afterwards.
C25_EndOfCycleTransportData ==
    [][(Produces /\ ~panicked') =>
          /\ Emits(emitted', "TransportData") <=> (ap'.running \/ hist.seeked)
          /\ ~ap'.status_changed_flag]_vars

\* A cycle of a stopped transport has closed with TransportData after a seek
\* to beat 2.
C25_Witness ==
    /\ pc = "idle"
    /\ cycles > 0
    /\ ~ap.running
    /\ met.beat_idx = 0
    /\ met.next_beat_idx = 2
    /\ ~hist.seeked
    /\ ~ap.status_changed_flag
    /\ Emits(emitted, "TransportData")

\* ------------------------------------------------------ the metronome's beats

RateCycles == 7         \* realtime cycles per behaviour of SpecRate
RateCmds == 2           \* client commands per behaviour of SpecRate

\* A cue of four beats of 2000 us; buffers of 48 samples, a period of 1000 us.
CueR == MkCue(<<2000, 2000, 2000, 2000>>, <<>>)

Playrates == {0, 50, 100, 200}

RateClientCmds ==
    {Cmd("TransportStart", 0, 0)} \cup {Cmd("ChangePlayrate", p, 0) : p \in Playrates}

InitRate == Constructed(<<CueR>>, 48, 1000000, RateCmds)

ClientRate == \E cmd \in RateClientCmds : ClientSend(cmd)

BeginCycleRate == Begin(cycles < RateCycles)

NextRate == ClientRate \/ BeginCycleRate \/ DrainOne \/ Produce

SpecRate == InitRate /\ [][NextRate]_vars

\* The buffers of this step make the metronome advance to its next beat.
Advances ==
    /\ met'.last_beat_time # met.last_beat_time
    /\ met'.beat_idx = met.next_beat_idx
    /\ met'.next_beat_idx = met.next_beat_idx + 1

\* C26: in a cycle of a running transport whose metronome has a next beat, the
\* metronome advances if and only if jack_time has reached
\* last_beat_time + length_us * 100 / playrate_percent of the current beat.
C26_AdvanceAtScheduledTime ==
    [][(/\ Produces
        /\ ctx'.running
        /\ ap.playrate_percent > 0
        /\ HasBeat(ap.cue, met.next_beat_idx)) =>
            (Advances <=>
                jack_time >= met.last_beat_time
                    + IDiv(BeatLength(ap.cue, met.beat_idx) * 100, ap.playrate_percent))]_vars

\* At playrate 200 a cycle has ended with the current beat of 2000 us begun
\* exactly 2000 us ago and still current.
C26_Witness ==
    /\ pc = "idle"
    /\ ctx.running
    /\ ap.playrate_percent = 200
    /\ met.last_beat_time > 0
    /\ HasBeat(ap.cue, met.next_beat_idx)
    /\ jack_time = met.last_beat_time + BeatLength(ap.cue, met.beat_idx)

\* C27: transport.playrate_percent is positive in every reachable state.
C27_PlayratePositive == ap.playrate_percent > 0

\* ChangePlayrate(0) has just been handled.
C27_Witness ==
    /\ pc = "drain"
    /\ hist.cmd = Cmd("ChangePlayrate", 0, 0)
    /\ ap.playrate_percent = 0
    /\ Emits(emitted, "TransportData")

\* ------------------------------------------------------ the beat indices

BeatCycles == 5         \* realtime cycles per behaviour of SpecBeats
BeatCmds == 3           \* client commands per behaviour of SpecBeats

\* A cue of four beats that jumps from beat 1 to beat 3, and a cue of one
\* beat; with buffers of 64 samples every cycle of a running transport enters
\* a beat.
CueLong == MkCue(<<1000, 1000, 1000, 1000>>, <<JumpEvent(1, 3, "None", "None", "None")>>)

CueShort == MkCue(<<1000>>, <<>>)

BeatClientCmds ==
    {Cmd("TransportStart", 0, 0), Cmd("TransportZero", 0, 0),
     Cmd("TransportSeekBeat", 2, 0), Cmd("TransportJumpBeat", 5, 0),
     Cmd("LoadCueByIndex", 1, 0)}

InitBeats ==
    \E n \in FrameSizes, t \in StartTimes : Constructed(<<CueLong, CueShort>>, n, t, BeatCmds)

ClientBeats == \E cmd \in BeatClientCmds : ClientSend(cmd)

BeginCycleBeats == Begin(cycles < BeatCycles)

NextBeats == ClientBeats \/ MainFollowUp \/ BeginCycleBeats \/ DrainOne \/ Produce

SpecBeats == InitBeats /\ [][NextBeats]_vars

\* The destinations of the jump events of a cue.
JumpTargets(cue) ==
    {cue.events[i].destination :
        i \in {j \in 1 .. Len(cue.events) : cue.events[j].kind = "Jump"}}

\* C28: at the end of every realtime cycle the metronome's beat_idx is at most
\* the number of beats of the loaded cue, and its next_beat_idx is beat_idx,
\* beat_idx + 1, the destination of a jump event of the cue or the beat of the
\* last seek or jump command.
C28_BeatIndicesInRange ==
    (pc = "idle" /\ ~panicked) =>
        /\ met.beat_idx <= Len(ap.cue.beats)
        /\ met.next_beat_idx \in
              {met.beat_idx, met.beat_idx + 1, hist.target} \cup JumpTargets(ap.cue)

\* A cycle has ended on the cue of one beat, loaded when the metronome had
\* gone past beat 1 of the cue of four.
C28_Witness ==
    /\ pc = "idle"
    /\ cycles > 0
    /\ ap.cue_idx = 1
    /\ ap.cue = CueShort
    /\ hist.beat_idx >= 2
    /\ met.beat_idx = 0

\* ------------------------------------------------------ arming a clip

MaxSlots == 3           \* clip slots of the channel in SpecArm

ArmClips == 0 .. 2

\* The slots of the channel as the loader may have left them: n slots, each
\* holding one of the clips.
ArmSlots(n) == [1 .. n -> {[clip_idx |-> k, len |-> ClipSamples(k)] : k \in ArmClips}]

\* A PlaybackStart event of the next beat is about to be treated by send_buffer
\* of a device, active or not, in a cycle us microseconds before the beat.
InitArm ==
    /\ Idle
    /\ tc = NewTimecodeSource(25)
    /\ net = NewNet
    /\ \E n \in 1 .. MaxSlots, k \in ArmClips, off \in {-48, 0}, us \in {0, 5000},
          act \in BOOLEAN :
         \E slots \in ArmSlots(n) :
            probe = [fn |-> "PbEvent",
                     p |-> [NewPlaybackDevice EXCEPT !.active = act],
                     event |-> PlaybackEvent(1, PbChannel, k, off),
                     c |-> [NewContext EXCEPT !.running = TRUE, !.us_to_next_beat = us,
                                              !.frame_size = 64],
                     slots |-> slots, done |-> FALSE]

Arm ==
    /\ probe.fn = "PbEvent"
    /\ ~probe.done
    /\ probe' = [probe EXCEPT !.p = PbEvent(probe.p, probe.event, probe.c, probe.slots),
                              !.done = TRUE]
    /\ UNCHANGED <<net, show, ap, met, tc, pb, gain, ctx, clips, cmd_q, emitted, pc,
                   jack_time, frame_size, cycles, panicked, main, fired, hist>>

NextArm == Arm

SpecArm == InitArm /\ [][NextArm]_vars

\* The slots that hold the clip of the event.
SlotsHolding == {i \in 1 .. Len(probe.slots) : probe.slots[i].clip_idx = probe.event.clip_idx}

\* C29: a PlaybackStart of the device's channel treated in an overrunning cycle
\* leaves the device active on a slot that holds the clip, at the sample
\* offset of the event, if some slot holds the clip, and inactive only if none
\* does.
C29_ArmsOnHoldingSlot ==
    (probe.fn = "PbEvent" /\ probe.done /\ will_overrun_frame(probe.c)) =>
        IF SlotsHolding # {}
        THEN /\ probe.p.active
             /\ probe.p.current_clip + 1 \in SlotsHolding
             /\ probe.p.current_sample = probe.event.sample
        ELSE ~probe.p.active

\* The event has been treated in an overrunning cycle on a channel of two or
\* more slots, the first of which holds the clip; the device is inactive.
C29_Witness ==
    /\ probe.fn = "PbEvent"
    /\ probe.done
    /\ will_overrun_frame(probe.c)
    /\ Len(probe.slots) >= 2
    /\ 1 \in SlotsHolding
    /\ probe.p.current_clip = 0
    /\ ~probe.p.active

\* ------------------------------------------------- publishing a clip slot

MaxWrites == 2          \* AudioClip::write calls per behaviour of SpecWrite
MaxReads == 2           \* realtime cycles reading the slot per behaviour of SpecWrite

\* What the index cell and the buffer cell of a slot hold: the clip, and the
\* call of write that stored it (0: AudioClip::new).
Stored(clip, publication) == [clip |-> clip, publication |-> publication]

NothingRead == Stored(-1, -1)

\* AudioClip::new shared by the loader and the device; the loader between two
\* calls of write; the realtime thread before its first read.
InitWrite ==
    /\ Idle
    /\ tc = NewTimecodeSource(25)
    /\ net = NewNet
    /\ probe = [fn |-> "AudioClip", clip_idx |-> Stored(0, 0), buffer |-> Stored(0, 0),
                writing |-> -1, writes |-> 0,
                rt |-> "read_index", seen_idx |-> NothingRead, seen_buffer |-> NothingRead,
                reads |-> 0]

\* AudioClip::write, line 44: self.clip_idx.store(idx)
StoreIndex(clip) ==
    /\ probe.fn = "AudioClip"
    /\ probe.writing = -1
    /\ probe.writes < MaxWrites
    /\ probe' = [probe EXCEPT !.clip_idx = Stored(clip, probe.writes + 1),
                              !.writing = clip, !.writes = @ + 1]
    /\ UNCHANGED <<net, show, ap, met, tc, pb, gain, ctx, clips, cmd_q, emitted, pc,
                   jack_time, frame_size, cycles, panicked, main, fired, hist>>

\* AudioClip::write, line 45: self.buffer.store(buffer)
StoreBuffer ==
    /\ probe.fn = "AudioClip"
    /\ probe.writing # -1
    /\ probe' = [probe EXCEPT !.buffer = Stored(probe.writing, probe.writes),
                              !.writing = -1]
    /\ UNCHANGED <<net, show, ap, met, tc, pb, gain, ctx, clips, cmd_q, emitted, pc,
                   jack_time, frame_size, cycles, panicked, main, fired, hist>>

\* send_buffer, line 356: clip.read_index() in the scan of an arming event
ReadIndex ==
    /\ probe.fn = "AudioClip"
    /\ probe.rt = "read_index"
    /\ probe.reads < MaxReads
    /\ probe' = [probe EXCEPT !.seen_idx = probe.clip_idx, !.seen_buffer = NothingRead,
                              !.rt = "read_buffer", !.reads = @ + 1]
    /\ UNCHANGED <<net, show, ap, met, tc, pb, gain, ctx, clips, cmd_q, emitted, pc,
                   jack_time, frame_size, cycles, panicked, main, fired, hist>>

\* send_buffer, lines 379-385: get_length() and read_buffer_slice() of the slot
ReadBuffer ==
    /\ probe.fn = "AudioClip"
    /\ probe.rt = "read_buffer"
    /\ probe' = [probe EXCEPT !.seen_buffer = probe.buffer, !.rt = "read_index"]
    /\ UNCHANGED <<net, show, ap, met, tc, pb, gain, ctx, clips, cmd_q, emitted, pc,
                   jack_time, frame_size, cycles, panicked, main, fired, hist>>

LoaderWrites == \E clip \in ArmClips : StoreIndex(clip)

NextWrite == LoaderWrites \/ StoreBuffer \/ ReadIndex \/ ReadBuffer

SpecWrite == InitWrite /\ [][NextWrite]_vars

\* C30: the index and the buffer the realtime thread has read from a slot in
\* one cycle were stored by the same call of write.
C30_SlotPublishedWhole ==
    (probe.fn = "AudioClip" /\ probe.seen_buffer # NothingRead) =>
        probe.seen_idx.publication = probe.seen_buffer.publication

\* The realtime thread has read the index of one clip and the buffer of
\* another while the loader was between its two stores.
C30_Witness ==
    /\ probe.fn = "AudioClip"
    /\ probe.writing # -1
    /\ probe.seen_buffer # NothingRead
    /\ probe.seen_idx.clip # probe.seen_buffer.clip
    /\ probe.seen_idx.publication = probe.seen_buffer.publication + 1

\* ------------------------------------------- reading a slot being replaced

\* The sample positions the device may be at, and the buffer size.
ReadPositions == {0, 64, 128}

\* An active device at sample position pos of a slot that holds clip first;
\* the loader about to replace the buffer; the realtime thread at the length
\* check of send_buffer.
InitRead ==
    /\ Idle
    /\ tc = NewTimecodeSource(25)
    /\ net = NewNet
    /\ \E first \in ArmClips, pos \in ReadPositions :
            probe = [fn |-> "read_buffer_slice", buffer |-> Stored(first, 0), writes |-> 0,
                     rt |-> "get_length", current_sample |-> pos, active |-> TRUE,
                     checked |-> NothingRead, copied |-> NothingRead, start |-> -1,
                     reads |-> 0]

\* AudioClip::write, line 45: the loader publishes the samples of a clip.
Publish(clip) ==
    /\ probe.fn = "read_buffer_slice"
    /\ probe.writes < MaxWrites
    /\ probe' = [probe EXCEPT !.buffer = Stored(clip, probe.writes + 1), !.writes = @ + 1]
    /\ UNCHANGED <<net, show, ap, met, tc, pb, gain, ctx, clips, cmd_q, emitted, pc,
                   jack_time, frame_size, cycles, panicked, main, fired, hist>>

\* send_buffer, lines 378-383: get_length() loads the buffer; the device is
\* disarmed if a frame from current_sample passes its length.
GetLength ==
    /\ probe.fn = "read_buffer_slice"
    /\ probe.rt = "get_length"
    /\ probe.active
    /\ probe.reads < MaxReads
    /\ probe' = [probe EXCEPT
                    !.checked = probe.buffer, !.copied = NothingRead, !.start = -1,
                    !.reads = @ + 1,
                    !.active = probe.current_sample + frame_size
                                   <= ClipSamples(probe.buffer.clip),
                    !.rt = IF probe.current_sample + frame_size
                                   <= ClipSamples(probe.buffer.clip)
                           THEN "read_buffer_slice" ELSE "get_length"]
    /\ UNCHANGED <<net, show, ap, met, tc, pb, gain, ctx, clips, cmd_q, emitted, pc,
                   jack_time, frame_size, cycles, panicked, main, fired, hist>>

\* send_buffer, lines 384-387: read_buffer_slice() loads the buffer again and
\* copies buf[start .. start + len]; current_sample moves on.
ReadBufferSlice ==
    /\ probe.fn = "read_buffer_slice"
    /\ probe.rt = "read_buffer_slice"
    /\ probe' = [probe EXCEPT !.copied = probe.buffer, !.start = probe.current_sample,
                              !.current_sample = @ + frame_size, !.rt = "get_length"]
    /\ UNCHANGED <<net, show, ap, met, tc, pb, gain, ctx, clips, cmd_q, emitted, pc,
                   jack_time, frame_size, cycles, panicked, main, fired, hist>>

LoaderPublishes == \E clip \in ArmClips : Publish(clip)

NextRead == LoaderPublishes \/ GetLength \/ ReadBufferSlice

SpecRead == InitRead /\ [][NextRead]_vars

\* C31: the buffer a cycle copies its samples from is the one whose length it
\* has checked, and the copy ends within that buffer.
C31_CopyFromCheckedBuffer ==
    (probe.fn = "read_buffer_slice" /\ probe.copied # NothingRead) =>
        /\ probe.copied = probe.checked
        /\ probe.start + frame_size <= ClipSamples(probe.copied.clip)

\* A cycle has checked the length of a buffer of 200 samples and copied from
\* one of 100 samples, published in between, past its end.
C31_Witness ==
    /\ probe.fn = "read_buffer_slice"
    /\ probe.copied # NothingRead
    /\ ClipSamples(probe.checked.clip) = 200
    /\ ClipSamples(probe.copied.clip) = 100
    /\ probe.copied.publication = probe.checked.publication + 1
    /\ probe.start + frame_size > 100

\* --------------------------------------------------- decoding the clip files

\* What hound finds at the path of a clip: a file it decodes, no file, a file
\* whose header it rejects, a file whose samples it fails to read.
FileStates == {"decodes", "missing", "bad_header", "bad_samples"}

\* WavReader::open returns Err for a missing file and for a rejected header.
OpenFails(file) == file \in {"missing", "bad_header"}

\* A cue with one PlaybackStart per clip of S on the channel, at beat 0.
CueOfClips(S) ==
    MkCue(<<1000>>, [i \in 1 .. Cardinality(S) |-> PlaybackEvent(0, PbChannel, SortedSeq(S)[i], 0)])

\* The loader is about to load a cue; disk tells what is at each clip's path.
InitLoad ==
    /\ Idle
    /\ tc = NewTimecodeSource(25)
    /\ net = NewNet
    /\ \E S \in SUBSET ArmClips, disk \in [ArmClips -> FileStates] :
            probe = [fn |-> "load_cue", disk |-> disk, idxs |-> clip_idxs_in_cue(CueOfClips(S)),
                     i |-> 1, slots |-> [j \in 1 .. Cardinality(S) |-> "empty"],
                     logged |-> {}, aborted |-> FALSE]

\* load_wav_buf as its caller sees it: the unwrap of a failed open panics;
\* samples that fail to decode are logged and replaced by 0.0.
load_wav_buf(p, clip) ==
    IF OpenFails(p.disk[clip]) THEN [p EXCEPT !.aborted = TRUE]
    ELSE [p EXCEPT !.slots[p.i] = IF p.disk[clip] = "bad_samples" THEN "silence"
                                  ELSE "samples",
                   !.logged = IF p.disk[clip] = "bad_samples" THEN @ \cup {clip} ELSE @,
                   !.i = @ + 1]

\* One turn of the loop of load_cue, lines 215-218.
LoadClip ==
    /\ probe.fn = "load_cue"
    /\ ~probe.aborted
    /\ probe.i <= Len(probe.idxs)
    /\ probe' = load_wav_buf(probe, probe.idxs[probe.i])
    /\ UNCHANGED <<net, show, ap, met, tc, pb, gain, ctx, clips, cmd_q, emitted, pc,
                   jack_time, frame_size, cycles, panicked, main, fired, hist>>

NextLoad == LoadClip

SpecLoad == InitLoad /\ [][NextLoad]_vars

\* C32: load_cue never aborts; every clip of the cue whose turn has passed has
\* its slot written, with silence and a logged error if its file is missing
\* or cannot be decoded.
C32_LoadCueNeverAborts ==
    probe.fn = "load_cue" =>
        /\ ~probe.aborted
        /\ \A j \in 1 .. probe.i - 1 :
              /\ probe.slots[j] = IF probe.disk[probe.idxs[j]] = "decodes"
                                  THEN "samples" ELSE "silence"
              /\ probe.disk[probe.idxs[j]] # "decodes" => probe.idxs[j] \in probe.logged

\* load_cue has panicked on the missing file of the first of two clips: no
\* slot is written, nothing is logged, the second clip is never loaded.
C32_Witness ==
    /\ probe.fn = "load_cue"
    /\ probe.aborted
    /\ Len(probe.idxs) = 2
    /\ probe.i = 1
    /\ probe.disk[probe.idxs[1]] = "missing"
    /\ probe.disk[probe.idxs[2]] = "decodes"
    /\ probe.slots = <<"empty", "empty">>
    /\ probe.logged = {}

\* ------------------------------------------------- the position after a seek

MaxSeekBeats == 60
SeekBeatLengths == {500000, 1000000, 10000000}
SeekOffsets == {0, 4800}
Builds == {"overflow_checks", "wrapping"}

\* A cue of MaxSeekBeats beats of one length with a PlaybackStart at beat at.
SeekCue(length, at, offset) ==
    MkCue([i \in 1 .. MaxSeekBeats |-> length], <<PlaybackEvent(at, PbChannel, 0, offset)>>)

\* A device with a cue loaded is about to handle a jump or seek to beat b.
InitSeek ==
    /\ Idle
    /\ tc = NewTimecodeSource(25)
    /\ net = NewNet
    /\ \E length \in SeekBeatLengths, at \in {0, 2}, offset \in SeekOffsets,
          op \in SeekOps, b \in 1 .. MaxSeekBeats :
            probe = [fn |-> "calculate_time_at_beat", cue |-> SeekCue(length, at, offset),
                     op |-> op, b |-> b, offset |-> offset,
                     accumulated_us |-> IF b > at THEN (b - at) * length ELSE -1,
                     done |-> FALSE, panicked |-> FALSE, pb |-> NewPlaybackDevice]

\* PlaybackDevice::command with TransportJumpBeat or TransportSeekBeat, in a
\* build with or without overflow checks.
Seek ==
    /\ probe.fn = "calculate_time_at_beat"
    /\ ~probe.done
    /\ \E build \in Builds :
          probe' = IF build = "overflow_checks" /\ probe.accumulated_us >= 0
                      /\ Mul48Overflows(probe.accumulated_us)
                   THEN [probe EXCEPT !.done = TRUE, !.panicked = TRUE]
                   ELSE [probe EXCEPT !.done = TRUE,
                            !.pb = PbCommand(@, Cmd(probe.op, probe.b, 0), [cue |-> probe.cue])]
    /\ UNCHANGED <<net, show, ap, met, tc, pb, gain, ctx, clips, cmd_q, emitted, pc,
                   jack_time, frame_size, cycles, panicked, main, fired, hist>>

NextSeek == Seek

SpecSeek == InitSeek /\ [][NextSeek]_vars

\* accumulated_us * sample_rate / 1 000 000 at 48 kHz, in unbounded integers.
SamplesIn(us) == (us \div 1000) * 48 + ((us % 1000) * 48) \div 1000

\* C33: after a jump or seek to a beat past the last PlaybackStart the
\* position is the start's sample_offset plus the samples of the time elapsed
\* since the start, and the command does not abort.
C33_SeekPositionExact ==
    (probe.fn = "calculate_time_at_beat" /\ probe.done /\ probe.accumulated_us >= 0) =>
        /\ ~probe.panicked
        /\ probe.pb.active
        /\ probe.pb.current_sample = probe.offset + SamplesIn(probe.accumulated_us)

\* A jump to the beat 60 s after the clip start has left the device at a
\* negative sample position.
C33_Witness ==
    /\ probe.fn = "calculate_time_at_beat"
    /\ probe.done
    /\ probe.op = "TransportJumpBeat"
    /\ probe.accumulated_us = 60000000
    /\ probe.offset = 0
    /\ probe.pb.active
    /\ probe.pb.current_sample = -1414967

\* ------------------------------------------------ the VLT action of a jump

VltCycles == 6          \* realtime cycles per behaviour of SpecVlt
VltCmds == 2            \* client commands per behaviour of SpecVlt

\* A cue whose beat 1, of 4000 us, carries a jump to beat 2 that toggles the
\* VLT flag; buffers of 64 samples, a period of 1333 us.
CueV == MkCue(<<1000, 4000, 4000>>, <<JumpEvent(1, 2, "None", "Toggle", "None")>>)

\* No command that sets the VLT flag itself.
VltClientCmds == {Cmd("TransportStart", 0, 0), Cmd("DumpStatus", 0, 0)}

InitVlt == Constructed(<<CueV>>, 64, 1000000, VltCmds)

ClientVlt == \E cmd \in VltClientCmds : ClientSend(cmd)

BeginCycleVlt == Begin(cycles < VltCycles)

NextVlt == ClientVlt \/ BeginCycleVlt \/ DrainOne \/ Produce

SpecVlt == InitVlt /\ [][NextVlt]_vars

\* This step brings the beat k into the status of the processor.
Adopts(k) == ap.beat.beat_idx # k /\ ap'.beat.beat_idx = k

\* C34: without a ChangeJumpMode command, transport.vlt changes only in the
\* step that brings the beat of a jump event into the transport, by the action
\* the event requests; every other cycle and every handled command leave it
\* as it is.
C34_VltAppliedOnce ==
    [][ap'.vlt # ap.vlt =>
          \E e \in Jumps :
              /\ Adopts(e.location)
              /\ ap'.vlt = vlt(ap'.beat.requested_vlt_action, ap.vlt)]_vars

\* The cue is on beat 1, reached once since the flag was off, its Toggle
\* still requested, and the flag is off again.
C34_Witness ==
    /\ ap.cue = CueV
    /\ ap.running
    /\ met.beat_idx = 1
    /\ ap.beat.beat_idx = 1
    /\ met.requested_vlt_action = "Toggle"
    /\ ~ap.vlt

\* ------------------------------------------------- a load and then a start

LoadStartCycles == 3    \* realtime cycles per behaviour of SpecLoadStart

\* A client that sends LoadCueByIndex(1) and then TransportStart.
InitLoadStart ==
    \E sh \in Shows, n \in FrameSizes, t \in StartTimes : Constructed(sh, n, t, 2)

ClientLoadStart ==
    \/ main.budget = 2 /\ ClientSend(Cmd("LoadCueByIndex", 1, 0))
    \/ main.budget = 1 /\ ClientSend(Cmd("TransportStart", 0, 0))

BeginCycleLoadStart == Begin(cycles < LoadStartCycles)

NextLoadStart == ClientLoadStart \/ MainFollowUp \/ BeginCycleLoadStart \/ DrainOne \/ Produce

SpecLoadStart == InitLoadStart /\ [][NextLoadStart]_vars

\* The processor's own commands of the operations ops not yet handled.
OwnPending(pending, ops) ==
    {k \in 1 .. Len(pending) : pending[k].own /\ pending[k].cmd.op \in ops}

\* C35: when TransportStart is handled next after LoadCueByIndex(i), i valid,
\* in the same drain, the transport is left running on cue i and the stop and
\* zero of the load are not still to come.
C35_LoadThenStartRuns ==
    [][\A i \in 0 .. Len(show) - 1 :
          (Handles(Cmd("TransportStart", 0, 0)) /\ hist.cmd = Cmd("LoadCueByIndex", i, 0)) =>
              /\ ap'.running
              /\ ap'.cue_idx = i
              /\ OwnPending(hist'.pending, {"TransportStop", "TransportZero"}) = {}]_vars

\* The end of the drain that has handled the client's load of cue 1 and then
\* its start: the load's own zero was the last command handled, and the
\* transport is stopped.
C35_Witness ==
    /\ pc = "drain"
    /\ cmd_q = <<>>
    /\ main.budget = 0
    /\ main.pending = NoCmd
    /\ ap.cue_idx = 1
    /\ hist.cmd = Cmd("TransportZero", 0, 0)
    /\ hist.prev = Cmd("TransportStop", 0, 0)
    /\ ~ap.running

\* ------------------------------------------- the cue index of the two loops

EarlyCycles == 4        \* realtime cycles per behaviour of SpecEarly
EarlyCmds == 2          \* requests after Initialize per behaviour of SpecEarly

\* The requests that change the cue, and the start that lets a cue run out.
CueClientCmds ==
    {Cmd("LoadCueByIndex", 0, 0), Cmd("LoadCueByIndex", 1, 0), Cmd("LoadNextCue", 0, 0),
     Cmd("LoadPreviousCue", 0, 0), Cmd("TransportStart", 0, 0)}

\* The requests that may have arrived before Initialize: none or one.
EarlyRequests ==
    {<<>>} \cup {<<cmd>> : cmd \in CueClientCmds \ {Cmd("TransportStart", 0, 0)}}

\* One request handled by the control loop before Initialize (lines 137-164):
\* the handler's load_cue finds no slots yet (PlaybackHandler::new), so that
\* writing a clip of the cue aborts the control loop.
EarlyHandle(m, cmd) ==
    LET r == MainHandle(m, cmd)
    IN  [r EXCEPT !.m.alive = @ /\ (r.load => clip_idxs_in_cue(show[r.m.cue_idx + 1]) = <<>>)]

\* The control loop has handled the requests early before Initialize: each
\* was put on the channel and followed up at once.
RECURSIVE EarlyHandled(_, _)
EarlyHandled(r, early) ==
    IF early = <<>> \/ ~r.m.alive THEN r
    ELSE EarlyHandled([m |-> EarlyHandle(r.m, Head(early)).m,
                       send |-> r.send \o <<Head(early)>>
                                    \o EarlyHandle(r.m, Head(early)).send],
                      Tail(early))

\* Initialize (lines 191-213) after the requests early: AudioProcessor::new
\* puts load_show's LoadCueByIndex(0) on the channel behind what the control
\* loop has sent already; the handler's load_show makes the slots anew.
ConstructedAfter(sh, n, t, early) ==
    /\ show = sh
    /\ ap = NewStatus
    /\ met = NewMetronome
    /\ pb = NewPlaybackDevice
    /\ gain = [s \in Sources |-> NewSource]
    /\ ctx = NewContext
    /\ clips = NewClips(sh)
    /\ emitted = <<>>
    /\ pc = "idle"
    /\ jack_time = t
    /\ frame_size = n
    /\ cycles = 0
    /\ panicked = FALSE
    /\ fired = <<>>
    /\ tc = NewTimecodeSource(25)
    /\ net = NewNet
    /\ \E r \in {EarlyHandled([m |-> NewMain(EarlyCmds), send |-> <<>>], early)} :
          /\ main = r.m
          /\ cmd_q = r.send \o <<Cmd("LoadCueByIndex", 0, 0)>>
          /\ hist = [NoHistory EXCEPT
                        !.pending = Sent(r.send, FALSE)
                                        \o Sent(<<Cmd("LoadCueByIndex", 0, 0)>>, TRUE)]
    /\ probe = [fn |-> "Initialize", early |-> early]

InitEarly ==
    \E sh \in Shows, n \in FrameSizes, t \in StartTimes, early \in EarlyRequests :
        ConstructedAfter(sh, n, t, early)

ClientEarly == \E cmd \in CueClientCmds : ClientSend(cmd)

BeginCycleEarly == Begin(cycles < EarlyCycles)

NextEarly == ClientEarly \/ MainFollowUp \/ BeginCycleEarly \/ DrainOne \/ Produce

SpecEarly == InitEarly /\ [][NextEarly]_vars

\* C36: between two realtime cycles, with no command on the channel and the
\* control loop done with its last request, the control loop's cue index is
\* the processor's.
C36_CueIndexAgrees ==
    (pc = "idle" /\ cmd_q = <<>> /\ main.alive /\ main.pending = NoCmd /\ ~panicked) =>
        main.cue_idx = ap.cue_idx

\* LoadCueByIndex(1) arrived before Initialize and nothing since: after the
\* first cycles the control loop is on cue 1 and the processor on cue 0.
C36_Witness ==
    /\ probe.fn = "Initialize"
    /\ probe.early = <<Cmd("LoadCueByIndex", 1, 0)>>
    /\ main.budget = EarlyCmds
    /\ pc = "idle"
    /\ cmd_q = <<>>
    /\ cycles >= 1
    /\ main.alive
    /\ main.cue_idx = 1
    /\ ap.cue_idx = 0
    /\ ap.cue = show[1]

\* --------------------------------------------------- the last beat of a cue

LastCycles == 5         \* realtime cycles per behaviour of SpecLast
LastCmds == 2           \* client commands per behaviour of SpecLast

\* A cue of two beats whose last beat, of 4000 us, spans three buffers of 64
\* samples.
CueLast == MkCue(<<1000, 4000>>, <<>>)

LastClientCmds == {Cmd("TransportStart", 0, 0), Cmd("DumpStatus", 0, 0)}

InitLast == Constructed(<<CueLast>>, 64, 1000000, LastCmds)

ClientLast == \E cmd \in LastClientCmds : ClientSend(cmd)

BeginCycleLast == Begin(cycles < LastCycles)

NextLast == ClientLast \/ BeginCycleLast \/ DrainOne \/ Produce

SpecLast == InitLast /\ [][NextLast]_vars

\* This step's cycle stops the transport for exhaustion.
StopsForExhaustion == Produces /\ ap.running /\ ~ap'.running

\* C37: a cycle stops the transport for exhaustion only on the last beat of
\* the cue and only if that beat's full length has elapsed by the end of the
\* cycle's buffer.
C37_LastBeatInFull ==
    [][StopsForExhaustion =>
          /\ met.beat_idx = Len(ap.cue.beats) - 1
          /\ jack_time + Period(frame_size)
                 >= met.last_beat_time + BeatLength(ap.cue, met.beat_idx)]_vars

\* The transport has been stopped for exhaustion in a cycle that ends more
\* than 1000 us before the last beat, of 4000 us, is over.
C37_Witness ==
    /\ ap.cue = CueLast
    /\ pc = "idle"
    /\ hist.ran_out = 0
    /\ ~ap.running
    /\ met.beat_idx = 1
    /\ Cmd("LoadNextCue", 0, 0) \in {cmd_q[i] : i \in 1 .. Len(cmd_q)}
    /\ jack_time + Period(frame_size) + 1000 < met.last_beat_time + 4000

\* -------------------------------------------------- the stop of a playback

StopCycles == 6         \* realtime cycles per behaviour of SpecStop
StopCmds == 2           \* client commands per behaviour of SpecStop

\* A cue that starts clip 0 (200 samples) at beat 1 and stops the channel at
\* beat 2; beat 1 lasts 4000 us, three buffers of 64 samples.
CueStop ==
    MkCue(<<1000, 4000, 4000>>,
          <<PlaybackEvent(1, PbChannel, 0, 0), PlaybackStopEvent(2, PbChannel)>>)

StopClientCmds == {Cmd("LoadCueByIndex", 0, 0), Cmd("TransportStart", 0, 0)}

InitStop == Constructed(<<CueStop>>, 64, 1000000, StopCmds)

ClientStop == \E cmd \in StopClientCmds : ClientSend(cmd)

BeginCycleStop == Begin(cycles < StopCycles)

NextStop == ClientStop \/ MainFollowUp \/ BeginCycleStop \/ DrainOne \/ Produce

SpecStop == InitStop /\ [][NextStop]_vars

\* This step's cycle finds the device playing and a PlaybackStop of its
\* channel at beat b disarms it.
StoppedAt(b) ==
    /\ Produces
    /\ pb.active
    /\ ctx'.running
    /\ ctx'.beat.next_beat_idx = b
    /\ \E i \in 1 .. Len(ctx'.cue.events) :
          /\ ctx'.cue.events[i].kind = "PlaybackStop"
          /\ ctx'.cue.events[i].channel = PbChannel
          /\ ctx'.cue.events[i].location = b
    /\ ~PbEvents(pb, EventsAt(ctx'.cue, b), ctx', clips).active

\* C38: a PlaybackStop at beat b disarms a playing device no earlier than the
\* cycle whose frame reaches the scheduled time of beat b: the metronome is on
\* beat b - 1 with the end of that beat inside the frame, or past it.
C38_StopAtBoundary ==
    [][\A b \in 1 .. MaxBeats :
          StoppedAt(b) =>
              \/ met.beat_idx >= b
              \/ /\ met.beat_idx = b - 1
                 /\ jack_time + Period(frame_size)
                        >= met.last_beat_time + BeatLength(ap.cue, b - 1)]_vars

\* The device, armed on entering beat 1, has been disarmed with its clip
\* barely begun and most of beat 1 still to come.
C38_Witness ==
    /\ ap.cue = CueStop
    /\ pc = "idle"
    /\ ctx.running
    /\ ctx.beat.beat_idx = 1
    /\ ctx.beat.next_beat_idx = 2
    /\ met.beat_idx = 1
    /\ jack_time + Period(frame_size) + 1000 < met.last_beat_time + 4000
    /\ ~pb.active
    /\ pb.current_sample = 64
    /\ clips[1].len = 200

\* ------------------------------------- the context of a command in the drain

StaleCycles == 3        \* realtime cycles per behaviour of SpecStale
StaleCmds == 3          \* client commands per behaviour of SpecStale

StaleClientCmds ==
    {Cmd("TransportStart", 0, 0), Cmd("TransportStop", 0, 0), Cmd("TransportJumpBeat", 2, 0)}

InitStale == Constructed(<<CueV>>, 64, 1000000, StaleCmds)

ClientStale == \E cmd \in StaleClientCmds : ClientSend(cmd)

BeginCycleStale == Begin(cycles < StaleCycles)

NextStale == ClientStale \/ BeginCycleStale \/ DrainOne \/ Produce

SpecStale == InitStale /\ [][NextStale]_vars

\* C39: when TransportJumpBeat(b) is handled next after TransportStop in the
\* drain of a cycle that found the transport running, the timecode source
\* sets its LTC to the time at beat b.
C39_SourceSeesStop ==
    [][\A b \in BeatIndices :
          (/\ Handles(Cmd("TransportJumpBeat", b, 0))
           /\ hist.cmd = Cmd("TransportStop", 0, 0)
           /\ ctx.running
           /\ ~ap.running) =>
              tc'.ltc = TcCalculateTimeAtBeat(tc, ctx, b)]_vars

\* TransportStop and then TransportJumpBeat(2) have been handled in one drain
\* of a running transport: the transport is stopped and the LTC is not the
\* time at beat 2.
C39_Witness ==
    /\ pc = "drain"
    /\ ~panicked
    /\ hist.prev = Cmd("TransportStop", 0, 0)
    /\ hist.cmd = Cmd("TransportJumpBeat", 2, 0)
    /\ ctx.running
    /\ ~ap.running
    /\ ~tc.running
    /\ met.next_beat_idx = 2
    /\ tc.ltc # TcCalculateTimeAtBeat(tc, ctx, 2)

\* ------------------------------------------- the buffers of the LTC generator

MaxBufCycles == 3       \* cycles per behaviour of SpecBuf

\* frame_buffer: [f32; 8192]
RingLen == 8192

BufSampleRates == {48000, 96000}
BufFrameRates == {24, 25, 30}
BufFrameSizes == {64, 256, 1024, 2048}
BufProgress == {0, 20000, 40000}

\* generate_smpte_frame_buffer writes buf[sample_idx + bit_idx * samples_per_bit]
\* for 80 bits into a buffer of 2048 samples (lines 123-134), and
\* calculate_frame_overlap slices the result to samples_per_frame (lines 200-202).
RenderFaults(t, sample_rate) ==
    \/ 80 * SamplesPerBit(t, sample_rate) > FrameBufLen
    \/ sample_rate \div t.frame_rate > FrameBufLen

\* calculate_frame_overlap moves and writes frame_buffer[samples_per_frame ..
\* 2 * samples_per_frame] (lines 195-204).
RingFaults(t, sample_rate) == 2 * (sample_rate \div t.frame_rate) > RingLen

\* frame returns frame_buffer[subframe_sample .. subframe_sample + frame_size]
\* (line 227).
OutputFaults(t, n, sample_rate) == subframe_sample(t, sample_rate) + n > RingLen

\* The first index of a call of frame that leaves its buffer, if any: t is
\* the source as advance_by_samples has left it.
FrameFault(t, n, sample_rate) ==
    IF ~SameFrame(t.last_cycle_frame, t.ltc) /\ RingFaults(t, sample_rate) THEN "ring"
    ELSE IF ~SameFrame(t.last_cycle_frame, t.ltc) /\ RenderFaults(t, sample_rate)
    THEN "render"
    ELSE IF OutputFaults(t, n, sample_rate) THEN "output"
    ELSE "none"

\* A running source of a frame rate, somewhere within its first frame, is
\* about to produce buffers of a size at a sample rate.
InitBuf ==
    /\ Idle
    /\ net = NewNet
    /\ \E rate \in BufFrameRates, p \in BufProgress :
          tc = [NewTimecodeSource(rate) EXCEPT !.running = TRUE, !.ltc.frame_progress = p]
    /\ \E sr \in BufSampleRates, n \in BufFrameSizes :
          probe = [fn |-> "frame", sample_rate |-> sr, frame_size |-> n, cycles |-> 0,
                   rendered |-> 0, fault |-> "none"]

\* One call of TimecodeSource::frame; an index out of range aborts it.
FrameCycle ==
    /\ probe.fn = "frame"
    /\ probe.fault = "none"
    /\ probe.cycles < MaxBufCycles
    /\ \E adv \in {advance_by_samples(tc, probe.frame_size, probe.sample_rate)} :
          /\ probe' = [probe EXCEPT
                          !.cycles = @ + 1,
                          !.rendered = IF SameFrame(adv.last_cycle_frame, adv.ltc)
                                       THEN @ ELSE @ + 1,
                          !.fault = FrameFault(adv, probe.frame_size, probe.sample_rate)]
          /\ tc' = IF FrameFault(adv, probe.frame_size, probe.sample_rate) = "none"
                   THEN MarkCycle(calculate_frame_overlap(adv))
                   ELSE tc
    /\ UNCHANGED <<net, show, ap, met, pb, gain, ctx, clips, cmd_q, emitted, pc, jack_time,
                   frame_size, cycles, panicked, main, fired, hist>>

NextBuf == FrameCycle

SpecBuf == InitBuf /\ [][NextBuf]_vars

\* C40: at 48000 and 96000 samples per second, 24, 25 and 30 frames per
\* second and every buffer size up to 2048, no call of frame uses an index
\* outside the render buffer of 2048 samples or the ring of 8192 samples.
C40_LtcIndicesInRange ==
    (probe.fn = "frame" /\ probe.cycles > 0) =>
        /\ probe.fault = "none"
        /\ probe.rendered > 0 => 80 * SamplesPerBit(tc, probe.sample_rate) <= FrameBufLen
        /\ probe.rendered > 0 => 2 * (probe.sample_rate \div tc.frame_rate) <= RingLen
        /\ subframe_sample(tc, probe.sample_rate) + probe.frame_size <= RingLen

\* At 96000 samples per second and 24 frames per second the first frame
\* rendered, of 80 bits of 50 samples, has run past the render buffer.
C40_Witness ==
    /\ probe.fn = "frame"
    /\ probe.sample_rate = 96000
    /\ tc.frame_rate = 24
    /\ probe.cycles = 1
    /\ probe.rendered = 1
    /\ probe.fault = "render"
    /\ 80 * SamplesPerBit(tc, probe.sample_rate) = 4000

====
